---- MODULE Spec2Model ----
(***************************************************************************)
(* A model of the gothog music player: the playlist store                 *)
(* (src/src/core/playlist_manager.py, src/src/utils/file_utils.py), the   *)
(* downloader (src/src/core/downloader.py), the audio player              *)
(* (src/src/core/audio_player.py) and the session controller              *)
(* (src/src/ui/main_window.py).                                           *)
(*                                                                         *)
(* Strings the code inspects character by character (playlist names and   *)
(* directory names) are tuples of one-character strings; strings the code *)
(* only passes around are TLA+ strings.  Python's None is the string      *)
(* "None".  Durations are whole seconds.  The timestamps (created_date,   *)
(* modified_date, downloaded_date) and the file hash are left out of the  *)
(* records: every operation only copies them.                             *)
(***************************************************************************)
EXTENDS Integers, Sequences, FiniteSets, TLC

VARIABLES
    playlists_dir,  \* PlaylistManager.playlists_dir: the root the manager scans
    disk,           \* the file system: path -> directory (manifest, audio files)
    playlists,      \* PlaylistManager.playlists: name -> Playlist object
    last,           \* the last operation: its arguments and what it returned
    orig,           \* the track sequence before the last reorder_tracks
    json_pc,        \* save_json: the statement it is at ("idle" outside a call)
    json_files,     \* save_json: the manifest, its .bak and its .tmp
    json_data,      \* save_json: the document it was called with
    json_ret,       \* save_json: what the last call returned
    json_before,    \* the manifest file as the last call found it
    save_threads,   \* concurrent save_json calls: thread -> statement, data, result
    progress,       \* PlaylistDownloader.progress: the DownloadProgress object
    dl,             \* the download call in progress: its locals and its result
    win,            \* MainWindow: current playlist, current track index, indicator
    player,         \* AudioPlayer: the pipeline, its fields and its polling thread
    heard           \* the last event of the player or the window, as observed

storeVars == <<playlists_dir, disk, playlists, last, orig>>
jsonVars == <<json_pc, json_files, json_data, json_ret, json_before>>
threadVars == <<save_threads>>
dlVars == <<progress, dl>>
uiVars == <<win, player, heard>>

nonStoreVars == <<jsonVars, threadVars, dlVars, uiVars>>
nonJsonVars == <<storeVars, threadVars, dlVars, uiVars>>

vars == <<storeVars, jsonVars, threadVars, dlVars, uiVars>>

----------------------------------------------------------------------------
(* Bounds of the model *)

MaxTracks == 2      \* add_track is explored while a playlist has fewer tracks
MaxDirs == 2        \* create_playlist is explored while fewer directories exist
MaxCount == 2       \* update_track_stats is explored while the playlist's
                    \* counters add up to less
MaxMembers == 5     \* a downloaded playlist has at most this many members

None == "None"

\* a file is <<>> when it does not exist and <<content>> when it does
NoFile == <<>>
File(content) == <<content>>
Content(file) == file[1]

----------------------------------------------------------------------------
(* Python lists and dicts *)

\* seq[i] with a Python index (0-based, negative counts from the end)
PyIndex(seq, i) == IF i < 0 THEN seq[Len(seq) + i + 1] ELSE seq[i + 1]

\* whether seq[i] and seq.pop(i) find an element (they raise IndexError if not)
PyInRange(seq, i) == -Len(seq) <= i /\ i < Len(seq)

\* list.pop(i): the list without its element at Python index i
PyPop(seq, i) ==
    LET k == IF i < 0 THEN Len(seq) + i + 1 ELSE i + 1
    IN  SubSeq(seq, 1, k - 1) \o SubSeq(seq, k + 1, Len(seq))

\* list.insert(i, x): x goes before Python index i, clamped to the list
PyInsert(seq, i, x) ==
    LET j == IF i < 0 THEN Len(seq) + i ELSE i
        k == IF j < 0 THEN 0 ELSE IF j > Len(seq) THEN Len(seq) ELSE j
    IN  SubSeq(seq, 1, k) \o <<x>> \o SubSeq(seq, k + 1, Len(seq))

\* d.get(k, default)
Get(d, k, default) == IF k \in DOMAIN d THEN d[k] ELSE default

\* d[k] = v   and   del d[k]
Put(d, k, v) == [x \in (DOMAIN d) \cup {k} |-> IF x = k THEN v ELSE d[x]]
Del(d, k) == [x \in (DOMAIN d) \ {k} |-> d[x]]

EmptyDict == [x \in {} |-> x]

----------------------------------------------------------------------------
(* FileUtils.sanitize_filename and FileUtils.create_playlist_folder *)

InvalidChars == {"<", ">", ":", "\"", "/", "\\", "|", "?", "*"}
StripChars == {".", " "}
MaxNameLen == 100
Untitled == <<"U", "n", "t", "i", "t", "l", "e", "d">>

RECURSIVE StripLeft(_)
StripLeft(s) ==
    IF s # <<>> /\ Head(s) \in StripChars THEN StripLeft(Tail(s)) ELSE s

RECURSIVE StripRight(_)
StripRight(s) ==
    IF s # <<>> /\ s[Len(s)] \in StripChars
    THEN StripRight(SubSeq(s, 1, Len(s) - 1))
    ELSE s

sanitize_filename(filename) ==
    LET replaced == [i \in 1..Len(filename) |->
                        IF filename[i] \in InvalidChars THEN "_" ELSE filename[i]]
        stripped == StripRight(StripLeft(replaced))
        limited  == IF Len(stripped) > MaxNameLen
                    THEN SubSeq(stripped, 1, MaxNameLen)
                    ELSE stripped
    IN  IF limited = <<>> THEN Untitled ELSE limited

Digit == <<"0", "1", "2", "3", "4", "5", "6", "7", "8", "9">>

\* str(n) for a natural number n
RECURSIVE IntToStr(_)
IntToStr(n) ==
    IF n < 10 THEN <<Digit[n + 1]>>
    ELSE IntToStr(n \div 10) \o <<Digit[(n % 10) + 1]>>

\* FileUtils.get_playlists_directory(): ~/Music/Playlists
DefaultRoot == "~/Music/Playlists"

Exists(d, path) == path \in DOMAIN d

\* the while loop of create_playlist_folder: the first free directory among
\* name, name_1, name_2, ... under the DEFAULT root
RECURSIVE FreeFolder(_, _, _, _)
FreeFolder(d, name, playlist_dir, counter) ==
    IF Exists(d, playlist_dir)
    THEN FreeFolder(d, name,
                    <<DefaultRoot, sanitize_filename(name) \o <<"_">> \o IntToStr(counter)>>,
                    counter + 1)
    ELSE playlist_dir

EmptyDir == [manifest |-> NoFile, files |-> {}]

\* returns <<the new directory's path, the disk with it made>>
create_playlist_folder(d, name) ==
    LET playlist_dir == FreeFolder(d, name, <<DefaultRoot, sanitize_filename(name)>>, 1)
    IN  <<playlist_dir, Put(d, playlist_dir, EmptyDir)>>

----------------------------------------------------------------------------
(* Track, PlaylistSettings, PlaylistSource and their dict forms *)

TrackFields == {"filename", "title", "artist", "duration",
                "play_count", "skip_count", "last_played"}
\* the Optional[...] fields of Track: the only ones that can hold None
TrackOptional == {"artist", "last_played"}
TrackDefaults == [artist |-> None, duration |-> 0, play_count |-> 0,
                  skip_count |-> 0, last_played |-> None]

Track_to_dict(t) ==
    [k \in {f \in DOMAIN t : f \notin TrackOptional \/ t[f] # None} |-> t[k]]

Track_from_dict(data) ==
    [k \in TrackFields |->
        IF k \in DOMAIN data THEN data[k] ELSE TrackDefaults[k]]

\* MetadataUtils.read_metadata: what the tag reader finds in each audio file
Metadata == ( "a.mp3"  :> [title |-> "Song A", artist |-> "Ann", duration |-> 2] ) @@
            ( "b.flac" :> [title |-> "b",      artist |-> None,  duration |-> 3] ) @@
            ( "C.OGG"  :> [title |-> "C",      artist |-> None,  duration |-> 1] ) @@
            ( "d.wav"  :> [title |-> "d",      artist |-> "Dee", duration |-> 4] )

\* the audio files the track operations are tried with
FileNames == {"a.mp3", "b.flac"}

Track_from_file(filename) ==
    [filename |-> filename,
     title |-> Metadata[filename].title,
     artist |-> Metadata[filename].artist,
     duration |-> Metadata[filename].duration,
     play_count |-> 0, skip_count |-> 0, last_played |-> None]

SourceFields == {"type", "url", "last_sync"}
SourceOptional == {"url", "last_sync"}

PlaylistSource_to_dict(s) ==
    [k \in {f \in DOMAIN s : f \notin SourceOptional \/ s[f] # None} |-> s[k]]

PlaylistSource_from_dict(data) ==
    [k \in SourceFields |-> IF k \in DOMAIN data THEN data[k] ELSE None]

DefaultVolume == 8      \* 0.8, in tenths
DefaultSettings == [shuffle_enabled |-> FALSE, repeat_mode |-> "none",
                    volume |-> DefaultVolume, equalizer_preset |-> "default"]
SettingsFields == DOMAIN DefaultSettings

PlaylistSettings_to_dict(s) == s

PlaylistSettings_from_dict(data) ==
    [k \in SettingsFields |->
        IF k \in DOMAIN data THEN data[k] ELSE DefaultSettings[k]]

----------------------------------------------------------------------------
(* Playlist: __init__, load, save *)

RECURSIVE SumDuration(_)
SumDuration(tracks) ==
    IF tracks = <<>> THEN 0
    ELSE Head(tracks).duration + SumDuration(Tail(tracks))

\* the tracks of a manifest, as load() reads them
ManifestTracks(data) ==
    [i \in 1..Len(data.tracks) |-> Track_from_dict(data.tracks[i])]

\* load(): the playlist after reading the manifest of its directory; it is
\* left as it was when there is no manifest (load returns False)
load(pl, d) ==
    LET file == IF Exists(d, pl.path) THEN d[pl.path].manifest ELSE NoFile
        data == Content(file)
    IN  IF file = NoFile THEN pl
        ELSE [pl EXCEPT
                !.name = Get(data, "name", pl.name),
                !.description = Get(data, "description", ""),
                !.cover_image = Get(data, "cover_image", None),
                !.total_duration = Get(data, "total_duration", 0),
                !.track_count = Get(data, "track_count", 0),
                !.tags = Get(data, "tags", <<>>),
                !.source = IF "source" \in DOMAIN data
                           THEN PlaylistSource_from_dict(data.source)
                           ELSE pl.source,
                !.settings = IF "settings" \in DOMAIN data
                             THEN PlaylistSettings_from_dict(data.settings)
                             ELSE pl.settings,
                !.tracks = IF "tracks" \in DOMAIN data
                           THEN ManifestTracks(data) ELSE <<>>]

\* Playlist(path): the defaults, then load() when the directory exists
Playlist_init(path, d) ==
    LET fresh == [path |-> path, name |-> path[2], description |-> "",
                  cover_image |-> None, total_duration |-> 0, track_count |-> 0,
                  source |-> [type |-> "manual", url |-> None, last_sync |-> None],
                  settings |-> DefaultSettings, tracks |-> <<>>, tags |-> <<>>]
    IN  IF Exists(d, path) THEN load(fresh, d) ELSE fresh

\* save(), its in-memory part: the derived fields are recomputed
Recomputed(pl) ==
    [pl EXCEPT !.track_count = Len(pl.tracks),
               !.total_duration = SumDuration(pl.tracks)]

\* a save() that leaves the tags out of the manifest
ManifestDataNoTags(pl) ==
    [name |-> pl.name, description |-> pl.description,
     cover_image |-> pl.cover_image,
     total_duration |-> pl.total_duration, track_count |-> pl.track_count,
     source |-> PlaylistSource_to_dict(pl.source),
     settings |-> PlaylistSettings_to_dict(pl.settings),
     tracks |-> [i \in 1..Len(pl.tracks) |-> Track_to_dict(pl.tracks[i])]]

\* save(), the data it hands to save_json
ManifestData(pl) ==
    [name |-> pl.name, description |-> pl.description,
     cover_image |-> pl.cover_image,
     total_duration |-> pl.total_duration, track_count |-> pl.track_count,
     tags |-> pl.tags,
     source |-> PlaylistSource_to_dict(pl.source),
     settings |-> PlaylistSettings_to_dict(pl.settings),
     tracks |-> [i \in 1..Len(pl.tracks) |-> Track_to_dict(pl.tracks[i])]]

\* FileUtils.save_json as one step: with io = "ok" the manifest is replaced by
\* data; with io = "fail" an exception is caught, the manifest is left as it
\* was and save_json returns False.  (The steps inside it are SpecSave's.)
save_json(d, path, data, io) ==
    IF io = "ok" /\ Exists(d, path)
    THEN [d EXCEPT ![path].manifest = File(data)]
    ELSE d

SaveOk(d, path, io) == io = "ok" /\ Exists(d, path)

IO == {"ok", "fail"}

----------------------------------------------------------------------------
(* The record of the last operation (a history variable) *)

NoOp == [op |-> "init", name |-> <<>>, file |-> "", loc |-> "", a |-> -9, b |-> -9,
         ret |-> "", err |-> "", saved |-> "none", undo |-> FALSE, path |-> <<>>,
         prev |-> "", old |-> <<>>]

\* what an operation ending in "return self.save()" records
SaveOutcome(rec, d, path, io) ==
    [rec EXCEPT !.ret = IF SaveOk(d, path, io) THEN "True" ELSE "False",
                !.err = IF SaveOk(d, path, io) THEN "" ELSE "SaveFailed",
                !.saved = IF SaveOk(d, path, io) THEN "ok" ELSE "failed"]

Failed(rec, err) == [rec EXCEPT !.ret = "False", !.err = err]

----------------------------------------------------------------------------
(* Playlist: add_track, remove_track, reorder_tracks, sync_with_filesystem *)

\* where the audio_file argument of add_track lies
Locations == {"inside", "outside", "missing"}

\* audio_file.exists()
SourceExists(dir, filename, loc) ==
    IF loc = "inside" THEN filename \in dir.files ELSE loc = "outside"

\* an add_track that never finds the destination taken
DestNeverExists(dir, filename) == FALSE

\* dest_path.exists(), asked only for a file outside the playlist directory
DestExists(dir, filename) == filename \in dir.files

add_track(p, filename, loc, io) ==
    LET pl  == playlists[p]
        dir == disk[pl.path]
        rec == [NoOp EXCEPT !.op = "add_track", !.name = p,
                            !.file = filename, !.loc = loc]
    IN  /\ Exists(disk, pl.path)
        /\ Len(pl.tracks) < MaxTracks
        /\ orig' = <<>>
        /\ UNCHANGED playlists_dir
        /\ IF ~SourceExists(dir, filename, loc)
           THEN /\ last' = Failed(rec, "NotFound")
                /\ UNCHANGED <<disk, playlists>>
           ELSE IF loc # "inside" /\ DestExists(dir, filename)
           THEN /\ last' = Failed(rec, "AlreadyExists")
                /\ UNCHANGED <<disk, playlists>>
           ELSE LET copied == [disk EXCEPT ![pl.path].files = @ \cup {filename}]
                    pl2 == Recomputed([pl EXCEPT !.tracks =
                                          Append(@, Track_from_file(filename))])
                IN  /\ playlists' = [playlists EXCEPT ![p] = pl2]
                    /\ disk' = save_json(copied, pl.path, ManifestData(pl2), io)
                    /\ last' = SaveOutcome(rec, copied, pl.path, io)

\* an index check that forgets the negative indexes
ValidIndexNoLower(tracks, index) == ~(index >= Len(tracks))

\* the index check of remove_track and reorder_tracks
ValidIndex(tracks, index) == ~(index < 0 \/ index >= Len(tracks))

remove_track(p, index, delete_file, io) ==
    LET pl  == playlists[p]
        rec == [NoOp EXCEPT !.op = "remove_track", !.name = p, !.a = index,
                            !.b = IF delete_file THEN 1 ELSE 0]
    IN  /\ Exists(disk, pl.path)
        /\ orig' = <<>>
        /\ UNCHANGED playlists_dir
        /\ IF ~ValidIndex(pl.tracks, index)
           THEN /\ last' = Failed(rec, "OutOfRange")
                /\ UNCHANGED <<disk, playlists>>
           ELSE IF ~PyInRange(pl.tracks, index)
           THEN \* self.tracks[index] raises IndexError
                /\ last' = [rec EXCEPT !.ret = "raise", !.err = "IndexError"]
                /\ UNCHANGED <<disk, playlists>>
           ELSE LET track == PyIndex(pl.tracks, index)
                    unlinked == IF delete_file
                                THEN [disk EXCEPT ![pl.path].files =
                                                      @ \ {track.filename}]
                                ELSE disk
                    pl2 == Recomputed([pl EXCEPT !.tracks = PyPop(@, index)])
                IN  /\ playlists' = [playlists EXCEPT ![p] = pl2]
                    /\ disk' = save_json(unlinked, pl.path, ManifestData(pl2), io)
                    /\ last' = SaveOutcome([rec EXCEPT !.file = track.filename],
                                           unlinked, pl.path, io)

\* a move that corrects the insertion index for the element popped before it
MoveTrackShifted(tracks, old_index, new_index) ==
    PyInsert(PyPop(tracks, old_index),
             IF old_index < new_index THEN new_index - 1 ELSE new_index,
             PyIndex(tracks, old_index))

\* track = self.tracks.pop(old_index); self.tracks.insert(new_index, track)
MoveTrack(tracks, old_index, new_index) ==
    PyInsert(PyPop(tracks, old_index), new_index, PyIndex(tracks, old_index))

reorder_tracks(p, old_index, new_index, io) ==
    LET pl   == playlists[p]
        rec  == [NoOp EXCEPT !.op = "reorder_tracks", !.name = p,
                             !.a = old_index, !.b = new_index]
        \* this call reverses the call before it
        undo == /\ last.op = "reorder_tracks" /\ last.name = p
                /\ last.err # "OutOfRange" /\ ~last.undo
                /\ last.a = new_index /\ last.b = old_index
    IN  /\ Exists(disk, pl.path)
        /\ UNCHANGED playlists_dir
        /\ IF ~ValidIndex(pl.tracks, old_index) \/ ~ValidIndex(pl.tracks, new_index)
           THEN /\ last' = Failed(rec, "OutOfRange")
                /\ orig' = <<>>
                /\ UNCHANGED <<disk, playlists>>
           ELSE IF ~PyInRange(pl.tracks, old_index)
           THEN \* self.tracks.pop(old_index) raises IndexError
                /\ last' = [rec EXCEPT !.ret = "raise", !.err = "IndexError"]
                /\ orig' = <<>>
                /\ UNCHANGED <<disk, playlists>>
           ELSE LET pl2 == Recomputed([pl EXCEPT !.tracks =
                                          MoveTrack(@, old_index, new_index)])
                IN  /\ playlists' = [playlists EXCEPT ![p] = pl2]
                    /\ disk' = save_json(disk, pl.path, ManifestData(pl2), io)
                    /\ last' = SaveOutcome([rec EXCEPT !.undo = undo],
                                           disk, pl.path, io)
                    /\ orig' = IF undo THEN orig ELSE pl.tracks

\* every file name a playlist directory is tried with: the audio files and
\* the cover image
DirFiles == DOMAIN Metadata \cup {"cover.jpg"}

supported_extensions == {".mp3", ".flac", ".m4a", ".opus", ".ogg", ".wav"}

\* file.suffix.lower()
SuffixLower == ( "a.mp3" :> ".mp3" ) @@ ( "b.flac" :> ".flac" ) @@
               ( "C.OGG" :> ".ogg" ) @@ ( "d.wav" :> ".wav" ) @@
               ( "cover.jpg" :> ".jpg" )

\* sorted(): the file names in the order of POSIX paths, which compare by
\* code point, capitals first
FileOrder == <<"C.OGG", "a.mp3", "b.flac", "cover.jpg", "d.wav">>

\* the place of a file name in sorted order
FileRank(f) == CHOOSE i \in 1..Len(FileOrder) : FileOrder[i] = f

\* a listing of the audio files in reverse order
AudioFilesReversed(dir) ==
    LET n == Len(FileOrder)
    IN  SelectSeq([i \in 1..n |-> FileOrder[n + 1 - i]],
                  LAMBDA f : f \in dir.files /\ SuffixLower[f] \in supported_extensions)

\* datetime.now().isoformat()
Now == "2026-11-02T12:00:00"

\* an index check that lets the negative indexes through
StatsIndexNoLower(tracks, index) == index < Len(tracks)

\* 0 <= index < len(self.tracks)
StatsIndex(tracks, index) == 0 <= index /\ index < Len(tracks)

\* the plays and skips of a playlist, added up
RECURSIVE SumCounts(_)
SumCounts(tracks) ==
    IF tracks = <<>> THEN 0
    ELSE Head(tracks).play_count + Head(tracks).skip_count + SumCounts(Tail(tracks))

\* update_track_stats returns None whatever happens; the result of save() is
\* dropped
update_track_stats(p, index, played, io) ==
    LET pl  == playlists[p]
        rec == [NoOp EXCEPT !.op = "update_track_stats", !.name = p, !.a = index,
                            !.b = IF played THEN 1 ELSE 0, !.ret = "None"]
    IN  /\ Exists(disk, pl.path)
        /\ orig' = <<>>
        /\ UNCHANGED playlists_dir
        /\ IF ~StatsIndex(pl.tracks, index)
           THEN /\ last' = rec
                /\ UNCHANGED <<disk, playlists>>
           ELSE IF ~PyInRange(pl.tracks, index)
           THEN \* self.tracks[index] raises IndexError
                /\ last' = [rec EXCEPT !.ret = "raise", !.err = "IndexError"]
                /\ UNCHANGED <<disk, playlists>>
           ELSE LET k == IF index < 0 THEN Len(pl.tracks) + index + 1 ELSE index + 1
                    track == PyIndex(pl.tracks, index)
                    track2 == IF played
                              THEN [track EXCEPT !.play_count = @ + 1,
                                                 !.last_played = Now]
                              ELSE [track EXCEPT !.skip_count = @ + 1]
                    pl2 == Recomputed([pl EXCEPT !.tracks[k] = track2])
                IN  /\ SumCounts(pl.tracks) < MaxCount
                    /\ playlists' = [playlists EXCEPT ![p] = pl2]
                    /\ disk' = save_json(disk, pl.path, ManifestData(pl2), io)
                    /\ last' = [rec EXCEPT !.saved = IF SaveOk(disk, pl.path, io)
                                                     THEN "ok" ELSE "failed"]

\* FileUtils.get_supported_audio_files: the files of the directory with a
\* supported extension, sorted
get_supported_audio_files(dir) ==
    SelectSeq(FileOrder,
              LAMBDA f : f \in dir.files /\ SuffixLower[f] \in supported_extensions)

\* a sync that takes no file for known
CurrentFilesNone(tracks) == {}

\* current_files = {track.filename for track in self.tracks}
current_files(tracks) == {tracks[i].filename : i \in 1..Len(tracks)}

sync_with_filesystem(p, io) ==
    LET pl  == playlists[p]
        dir == disk[pl.path]
        audio_files == get_supported_audio_files(dir)
        known == current_files(pl.tracks)
        new_files == SelectSeq(audio_files, LAMBDA f : f \notin known)
        added == pl.tracks \o [i \in 1..Len(new_files) |-> Track_from_file(new_files[i])]
        kept  == SelectSeq(added, LAMBDA t : t.filename \in dir.files)
        pl2 == Recomputed([pl EXCEPT !.tracks = kept])
        \* a: the tracks synthesized, b: the tracks dropped, prev: whether the
        \* operation before this one was a sync too
        rec == [NoOp EXCEPT !.op = "sync_with_filesystem", !.name = p,
                            !.a = Len(new_files), !.b = Len(added) - Len(kept),
                            !.prev = IF last.op = "sync_with_filesystem"
                                     THEN "sync" ELSE ""]
    IN  /\ Exists(disk, pl.path)
        /\ orig' = <<>>
        /\ UNCHANGED playlists_dir
        /\ playlists' = [playlists EXCEPT ![p] = pl2]
        /\ disk' = save_json(disk, pl.path, ManifestData(pl2), io)
        /\ last' = SaveOutcome(rec, disk, pl.path, io)

----------------------------------------------------------------------------
(* MainWindow._on_control_action: the "shuffle" and "repeat" buttons change *)
(* the settings of the current playlist and save it                         *)

RepeatModes == <<"none", "track", "playlist">>

\* modes.index(current_mode), 0-based
ModeIndex(mode) == CHOOSE i \in 0..2 : RepeatModes[i + 1] = mode

toggle_shuffle(p, io) ==
    LET pl  == playlists[p]
        pl2 == Recomputed([pl EXCEPT !.settings.shuffle_enabled = ~@])
        rec == [NoOp EXCEPT !.op = "toggle_shuffle", !.name = p]
    IN  /\ orig' = <<>>
        /\ UNCHANGED playlists_dir
        /\ playlists' = [playlists EXCEPT ![p] = pl2]
        /\ disk' = save_json(disk, pl.path, ManifestData(pl2), io)
        /\ last' = SaveOutcome(rec, disk, pl.path, io)

cycle_repeat(p, io) ==
    LET pl  == playlists[p]
        next_index == (ModeIndex(pl.settings.repeat_mode) + 1) % Len(RepeatModes)
        pl2 == Recomputed([pl EXCEPT !.settings.repeat_mode =
                                         RepeatModes[next_index + 1]])
        rec == [NoOp EXCEPT !.op = "cycle_repeat", !.name = p]
    IN  /\ orig' = <<>>
        /\ UNCHANGED playlists_dir
        /\ playlists' = [playlists EXCEPT ![p] = pl2]
        /\ disk' = save_json(disk, pl.path, ManifestData(pl2), io)
        /\ last' = SaveOutcome(rec, disk, pl.path, io)

----------------------------------------------------------------------------
(* PlaylistManager: _scan_playlists, create, delete, rename, refresh *)

\* FileUtils.validate_playlist_structure
validate_playlist_structure(d, path) == d[path].manifest # NoFile

\* _scan_playlists: the indexes a scan of root can build.  iterdir() yields
\* the directories in an order the OS chooses, and of two playlists with one
\* name the later one replaces the earlier one in the dict.
scan_playlists(d, root) ==
    LET valid == {path \in DOMAIN d :
                     path[1] = root /\ validate_playlist_structure(d, path)}
        obj   == [path \in valid |-> Playlist_init(path, d)]
        names == {obj[path].name : path \in valid}
    IN  {[n \in names |-> obj[pick[n]]] :
            pick \in {f \in [names -> valid] : \A n \in names : obj[f[n]].name = n}}

refresh ==
    /\ \E index \in scan_playlists(disk, playlists_dir) : playlists' = index
    \* prev: the operation before this scan wrote a manifest
    /\ last' = [NoOp EXCEPT !.op = "refresh",
                            !.name = IF last.saved = "ok" THEN last.name ELSE <<>>,
                            !.prev = IF last.saved = "ok" THEN "saved" ELSE ""]
    /\ orig' = <<>>
    /\ UNCHANGED <<playlists_dir, disk>>

Descriptions == {"mine"}

create_playlist(name, description, io) ==
    LET made == create_playlist_folder(disk, name)
        playlist_dir == made[1]
        pl  == Recomputed([Playlist_init(playlist_dir, made[2]) EXCEPT
                              !.name = name, !.description = description])
        rec == [NoOp EXCEPT !.op = "create_playlist", !.name = name,
                            !.path = playlist_dir]
    IN  /\ orig' = <<>>
        /\ UNCHANGED playlists_dir
        /\ IF SaveOk(made[2], playlist_dir, io)
           THEN /\ disk' = save_json(made[2], playlist_dir, ManifestData(pl), io)
                /\ playlists' = Put(playlists, pl.name, pl)
                /\ last' = [rec EXCEPT !.ret = "Playlist", !.saved = "ok"]
           ELSE \* shutil.rmtree(playlist_dir); return None
                /\ disk' = Del(made[2], playlist_dir)
                /\ UNCHANGED playlists
                /\ last' = [rec EXCEPT !.ret = "None", !.err = "SaveFailed",
                                       !.saved = "failed"]

delete_playlist(name, io) ==
    LET rec == [NoOp EXCEPT !.op = "delete_playlist", !.name = name]
    IN  /\ orig' = <<>>
        /\ UNCHANGED playlists_dir
        /\ IF name \notin DOMAIN playlists
           THEN /\ last' = Failed(rec, "NotFound")
                /\ UNCHANGED <<disk, playlists>>
           ELSE IF io = "fail" \/ ~Exists(disk, playlists[name].path)
           THEN \* shutil.rmtree raises
                /\ last' = Failed(rec, "OSError")
                /\ UNCHANGED <<disk, playlists>>
           ELSE /\ disk' = Del(disk, playlists[name].path)
                /\ playlists' = Del(playlists, name)
                /\ last' = [rec EXCEPT !.ret = "True"]

rename_playlist(old_name, new_name, io_rename, io_save) ==
    LET rec == [NoOp EXCEPT !.op = "rename_playlist", !.name = new_name,
                            !.old = old_name]
        new_path == <<playlists_dir, sanitize_filename(new_name)>>
    IN  /\ orig' = <<>>
        /\ UNCHANGED playlists_dir
        /\ IF old_name \notin DOMAIN playlists
           THEN /\ last' = Failed(rec, "NotFound")
                /\ UNCHANGED <<disk, playlists>>
           ELSE IF Exists(disk, new_path)
           THEN /\ last' = Failed(rec, "NameConflict")
                /\ UNCHANGED <<disk, playlists>>
           ELSE IF io_rename = "fail" \/ ~Exists(disk, playlists[old_name].path)
           THEN \* playlist.path.rename raises
                /\ last' = Failed(rec, "OSError")
                /\ UNCHANGED <<disk, playlists>>
           ELSE LET playlist == playlists[old_name]
                    moved == Put(Del(disk, playlist.path), new_path, disk[playlist.path])
                    pl2 == Recomputed([playlist EXCEPT !.path = new_path,
                                                       !.name = new_name])
                IN  \* playlist.save(): its result is not looked at
                    /\ disk' = save_json(moved, new_path, ManifestData(pl2), io_save)
                    /\ playlists' = Put(Del(playlists, old_name), new_name, pl2)
                    /\ last' = [rec EXCEPT !.ret = "True",
                                  !.saved = IF SaveOk(moved, new_path, io_save)
                                            THEN "ok" ELSE "failed"]

----------------------------------------------------------------------------
(* The user's file manager: audio files appear in and vanish from a         *)
(* playlist directory behind the program's back                             *)

env_put_file(path, filename) ==
    /\ filename \notin disk[path].files
    /\ disk' = [disk EXCEPT ![path].files = @ \cup {filename}]
    /\ last' = [NoOp EXCEPT !.op = "env_put_file", !.file = filename]
    /\ orig' = <<>>
    /\ UNCHANGED <<playlists_dir, playlists>>

env_delete_file(path, filename) ==
    /\ filename \in disk[path].files
    /\ disk' = [disk EXCEPT ![path].files = @ \ {filename}]
    /\ last' = [NoOp EXCEPT !.op = "env_delete_file", !.file = filename]
    /\ orig' = <<>>
    /\ UNCHANGED <<playlists_dir, playlists>>

----------------------------------------------------------------------------
(* FileUtils.save_json, statement by statement.  A document is known by its *)
(* name; a file holds a whole document or, after a write that failed half   *)
(* way, a torn one.                                                         *)

Docs == {"v1", "v2", "v3"}

Whole(doc) == File([doc |-> doc, whole |-> TRUE])
Torn(doc) == File([doc |-> doc, whole |-> FALSE])

ManifestPath == "playlist.json"

\* filepath.with_suffix('.json.bak')
backup_path(filepath) == "playlist.json.bak"

\* a save_json that writes the manifest in place
TempPathInPlace(filepath) == filepath

\* filepath.with_suffix('.json.tmp')
temp_path(filepath) == "playlist.json.tmp"

JsonPaths == {ManifestPath, backup_path(ManifestPath), temp_path(ManifestPath)}

\* a save_json that keeps the first backup it ever made
NeedsBackupOnce(files, filepath) ==
    files[filepath] # NoFile /\ files[backup_path(filepath)] = NoFile

\* backup and filepath.exists(); every caller leaves backup at its default, True
NeedsBackup(files, filepath) == files[filepath] # NoFile

\* the manifest file that save_json is writing
JsonManifest == json_files[ManifestPath]

JsonIdle ==
    /\ json_pc = "idle"
    /\ json_files = [path \in JsonPaths |-> NoFile]
    /\ json_data = ""
    /\ json_ret = ""
    /\ json_before = NoFile

\* the call: save_json(filepath, data)
save_json_call(data) ==
    /\ json_pc = "idle"
    /\ json_data' = data
    /\ json_ret' = ""
    /\ json_before' = json_files[ManifestPath]
    /\ json_pc' = IF NeedsBackup(json_files, ManifestPath) THEN "backup" ELSE "write"
    /\ UNCHANGED json_files

\* the exception handler: return False
JsonRaise ==
    /\ json_pc' = "idle"
    /\ json_ret' = "False"

\* shutil.copy2(filepath, backup_path); a copy that fails leaves the backup
\* as it was or torn
save_json_backup(io) ==
    LET src == json_files[ManifestPath]
        bak == backup_path(ManifestPath)
    IN  /\ json_pc = "backup"
        /\ UNCHANGED <<json_data, json_before>>
        /\ IF io = "ok"
           THEN /\ json_files' = [json_files EXCEPT ![bak] = src]
                /\ json_pc' = "write"
                /\ UNCHANGED json_ret
           ELSE /\ \E left \in {json_files[bak], Torn(Content(src).doc)} :
                       json_files' = [json_files EXCEPT ![bak] = left]
                /\ JsonRaise

\* open(temp_path, 'w') and json.dump; a write that fails leaves the
\* temporary file as it was or torn
save_json_write(io) ==
    LET tmp == temp_path(ManifestPath)
    IN  /\ json_pc = "write"
        /\ UNCHANGED <<json_data, json_before>>
        /\ IF io = "ok"
           THEN /\ json_files' = [json_files EXCEPT ![tmp] = Whole(json_data)]
                /\ json_pc' = "replace"
                /\ UNCHANGED json_ret
           ELSE /\ \E left \in {json_files[tmp], Torn(json_data)} :
                       json_files' = [json_files EXCEPT ![tmp] = left]
                /\ JsonRaise

\* temp_path.replace(filepath): an atomic rename (of a file onto itself,
\* nothing)
save_json_replace(io) ==
    LET tmp == temp_path(ManifestPath)
    IN  /\ json_pc = "replace"
        /\ UNCHANGED <<json_data, json_before>>
        /\ IF io = "ok"
           THEN /\ json_files' = IF tmp = ManifestPath THEN json_files
                                 ELSE [json_files EXCEPT ![ManifestPath] = json_files[tmp],
                                                         ![tmp] = NoFile]
                /\ json_pc' = "idle"
                /\ json_ret' = "True"
           ELSE /\ UNCHANGED json_files
                /\ JsonRaise

\* no save_json call is running in any thread
ThreadsIdle == save_threads = EmptyDict

\* DownloadProgress.__init__, and no download call under way
NewProgress == [total_tracks |-> 0, completed_tracks |-> 0, current_track |-> "",
                current_progress |-> 0, errors |-> <<>>, skipped |-> <<>>]

NoDownload == [pc |-> "idle"]

DlIdle ==
    /\ progress = NewProgress
    /\ dl = NoDownload

\* AudioPlayer.__init__.  The pipeline is known by its state (NULL, PAUSED,
\* PLAYING), its uri and its position in tenths of a second; volume is in
\* tenths; thread is the statement the polling thread is at ("none" before
\* _start_position_updater has started one) and sample the position it read.
InitialVolume == 8
\* None where a track path (a directory and a file name) is expected, and
\* where a playlist is
NoPath == <<>>
NoPlaylist == <<>>
NewPlayer == [state |-> "NULL", current_track |-> NoPath, position |-> 0,
              volume |-> InitialVolume, pipeline_volume |-> 10,
              is_paused |-> FALSE, update_position |-> FALSE,
              thread |-> "none", sample |-> 0]

\* MainWindow.__init__; playing_index is TrackList.playing_index and
\* track_info the title PlayerControls shows
NewWindow == [current_playlist |-> NoPlaylist, current_track_index |-> -1,
              playing_index |-> -1, track_info |-> ""]

\* nothing observed yet.  ev: the event; a, b: its arguments (a of a track
\* activation: 1 when nothing was played before it); index, position, state:
\* the current track index, the position and the pipeline state when it
\* began; at: the pipeline state when the callback was entered; stopped:
\* stop() was issued and the pipeline has not played since; from, base,
\* ends: the index the last activation started playback at, the play counts
\* of the playlist at that time, and the ends of track heard since, as long
\* as no other event of the window came in between (from = -1 otherwise)
NoEvent == [ev |-> "init", a |-> -9, b |-> -9, index |-> -9,
            position |-> 0, state |-> "NULL", at |-> "", err |-> "",
            on_end |-> 0, stopped |-> FALSE,
            from |-> -1, base |-> <<>>, ends |-> 0]

UiIdle ==
    /\ win = NewWindow
    /\ player = NewPlayer
    /\ heard = NoEvent

StoreIdle ==
    /\ playlists_dir = DefaultRoot
    /\ disk = EmptyDict
    /\ playlists = EmptyDict
    /\ last = NoOp
    /\ orig = <<>>

InitSave == JsonIdle /\ StoreIdle /\ ThreadsIdle /\ DlIdle /\ UiIdle

SaveJsonCall ==
    /\ UNCHANGED nonJsonVars
    /\ \E data \in Docs : save_json_call(data)

SaveJsonBackup ==
    /\ UNCHANGED nonJsonVars
    /\ \E io \in IO : save_json_backup(io)

SaveJsonWrite ==
    /\ UNCHANGED nonJsonVars
    /\ \E io \in IO : save_json_write(io)

SaveJsonReplace ==
    /\ UNCHANGED nonJsonVars
    /\ \E io \in IO : save_json_replace(io)

NextSave ==
    \/ SaveJsonCall
    \/ SaveJsonBackup
    \/ SaveJsonWrite
    \/ SaveJsonReplace

SpecSave == InitSave /\ [][NextSave]_vars

----------------------------------------------------------------------------
(* SpecThreads: save_json called from two threads on the same manifest.     *)
(* Nothing in Playlist.save or FileUtils.save_json takes a lock, so the     *)
(* statements of the two calls interleave freely.  Both calls use the same  *)
(* temporary path.  A thread that has the temporary file open keeps writing *)
(* to that file after another thread has renamed it onto the manifest.      *)

Threads == {"t1", "t2"}

\* the open file of no thread, and the open file whose name was replaced
NoFd == ""
Unlinked == "unlinked"

\* the call: the thread looks whether there is a manifest to back up
thread_call(t, data) ==
    /\ t \notin DOMAIN save_threads
    /\ save_threads' = Put(save_threads, t,
           [pc |-> IF NeedsBackup(json_files, ManifestPath) THEN "backup" ELSE "open",
            data |-> data, ret |-> "", fd |-> NoFd])
    /\ UNCHANGED json_files

\* shutil.copy2(filepath, backup_path)
thread_backup(t) ==
    /\ t \in DOMAIN save_threads
    /\ save_threads[t].pc = "backup"
    /\ json_files' = [json_files EXCEPT ![backup_path(ManifestPath)] =
                                            json_files[ManifestPath]]
    /\ save_threads' = [save_threads EXCEPT ![t].pc = "open"]

\* open(temp_path, 'w'): the temporary file is created or truncated; until
\* something is written it holds no whole document
thread_open(t) ==
    LET tmp == temp_path(ManifestPath)
    IN  /\ t \in DOMAIN save_threads
        /\ save_threads[t].pc = "open"
        /\ json_files' = [json_files EXCEPT ![tmp] = Torn(save_threads[t].data)]
        /\ save_threads' = [save_threads EXCEPT ![t].pc = "dump", ![t].fd = tmp]

\* json.dump and the end of the with block: the document is written from the
\* start of the open file.  Written over a document another thread has put
\* there since the file was truncated, it may leave that document's tail.
thread_dump(t) ==
    LET me == save_threads[t]
        written == IF me.fd = Unlinked THEN {NoFile}
                   ELSE IF Content(json_files[me.fd]).whole
                             /\ Content(json_files[me.fd]).doc # me.data
                        THEN {Whole(me.data), Torn(me.data)}
                        ELSE {Whole(me.data)}
    IN  /\ t \in DOMAIN save_threads
        /\ me.pc = "dump"
        /\ \E file \in written :
               json_files' = IF me.fd = Unlinked THEN json_files
                             ELSE [json_files EXCEPT ![me.fd] = file]
        /\ save_threads' = [save_threads EXCEPT ![t].pc = "replace", ![t].fd = NoFd]

\* temp_path.replace(filepath): raises FileNotFoundError, caught by the
\* handler, when another thread has already renamed the temporary file.
\* The open files of the other threads follow their file to its new name.
thread_replace(t) ==
    LET tmp == temp_path(ManifestPath)
        found == json_files[tmp] # NoFile
        Follow(fd) == IF fd = tmp THEN ManifestPath
                      ELSE IF fd = ManifestPath THEN Unlinked ELSE fd
    IN  /\ t \in DOMAIN save_threads
        /\ save_threads[t].pc = "replace"
        /\ json_files' = IF found
                         THEN [json_files EXCEPT ![ManifestPath] = json_files[tmp],
                                                 ![tmp] = NoFile]
                         ELSE json_files
        /\ save_threads' =
               [u \in DOMAIN save_threads |->
                   IF u = t
                   THEN [save_threads[u] EXCEPT
                            !.pc = "done",
                            !.ret = IF found THEN "True" ELSE "False"]
                   ELSE IF found
                   THEN [save_threads[u] EXCEPT !.fd = Follow(@)]
                   ELSE save_threads[u]]

nonThreadVars ==
    <<storeVars, dlVars, uiVars, json_pc, json_data, json_ret, json_before>>

\* the manifest may exist already, written by an earlier save
InitThreads ==
    /\ StoreIdle
    /\ DlIdle
    /\ UiIdle
    /\ ThreadsIdle
    /\ json_pc = "idle" /\ json_data = "" /\ json_ret = "" /\ json_before = NoFile
    /\ \E manifest \in {NoFile, Whole("v3")} :
           json_files = [path \in JsonPaths |->
                            IF path = ManifestPath THEN manifest ELSE NoFile]

ThreadCall ==
    /\ UNCHANGED nonThreadVars
    /\ \E t \in Threads, data \in Docs \ {"v3"} : thread_call(t, data)

ThreadBackup ==
    /\ UNCHANGED nonThreadVars
    /\ \E t \in Threads : thread_backup(t)

ThreadOpen ==
    /\ UNCHANGED nonThreadVars
    /\ \E t \in Threads : thread_open(t)

ThreadDump ==
    /\ UNCHANGED nonThreadVars
    /\ \E t \in Threads : thread_dump(t)

ThreadReplace ==
    /\ UNCHANGED nonThreadVars
    /\ \E t \in Threads : thread_replace(t)

NextThreads ==
    \/ ThreadCall
    \/ ThreadBackup
    \/ ThreadOpen
    \/ ThreadDump
    \/ ThreadReplace

SpecThreads == InitThreads /\ [][NextThreads]_vars

----------------------------------------------------------------------------
(* SpecDownload: PlaylistDownloader.download_playlist.  One step starts the *)
(* call (service, directory, cover, playlist_data), one step is one turn of *)
(* the loop over the members, one step saves the manifest and returns.      *)

\* a URL is known by its host and its playlist id
Urls == {[host |-> "open.spotify.com", id |-> "37i9"],
         [host |-> "www.youtube.com", id |-> "PL1"],
         [host |-> "music.youtube.com", id |-> "PL2"],
         [host |-> "example.com", id |-> "x"]}

\* 'needle' in url
InUrl(needle, url) ==
    <<url.host, needle>> \in {<<"open.spotify.com", "spotify.com">>,
                              <<"www.youtube.com", "youtube.com">>,
                              <<"music.youtube.com", "youtube.com">>,
                              <<"music.youtube.com", "music.youtube.com">>}

identify_service(url) ==
    IF InUrl("spotify.com", url) THEN "spotify"
    ELSE IF InUrl("youtube.com", url) \/ InUrl("youtu.be", url) THEN "youtube"
    ELSE IF InUrl("music.youtube.com", url) THEN "youtube_music"
    ELSE None

\* what the service and the fetcher answer for one member: the entry is
\* empty, the fetch raises, the fetch returns without leaving the mp3 file,
\* or the file is there
Kinds == {"empty", "raise", "nofile", "ok"}
Titles == {"a", "c"}
\* (the second title is tried on fetched members only)
Members == {m \in [kind : Kinds, title : Titles] : m.kind = "ok" \/ m.title = "a"}

\* the file yt-dlp leaves for a title ('%(title)s.%(ext)s', suffix .mp3) and
\* the duration the service reports
Mp3Of == ( "a" :> "a.mp3" ) @@ ( "c" :> "c.mp3" )
DurationOf == ( "a" :> 2 ) @@ ( "c" :> 5 )

\* a loop without the handler around the fetch
FetchNeverCaught(service, member) == FALSE

\* the inner handlers: "except Exception" around the fetch of one YouTube
\* member, and the one inside _download_from_youtube for a Spotify member
fetch_caught(service, member) == TRUE

\* track_data of a fetched member
track_data(service, member, index) ==
    IF service = "spotify"
    THEN [filename |-> Mp3Of[member.title], title |-> member.title,
          artist |-> "Ann", album |-> "LP", duration |-> DurationOf[member.title],
          track_number |-> index, source_id |-> <<"spotify:track", index>>]
    ELSE [filename |-> Mp3Of[member.title], title |-> member.title,
          artist |-> "Unknown", album |-> "", duration |-> DurationOf[member.title],
          source_id |-> <<"youtube:video", index>>]

\* the message appended to progress.errors
error_message(service, member) ==
    IF service = "spotify" THEN <<"Failed to download: ", member.title>>
    ELSE <<"Failed: ", member.title>>

\* whether a failed fetch is reported in progress.errors: the Spotify loop
\* reports every fetch that returned no file, the YouTube loop only a fetch
\* that raised
reports_error(service, member) ==
    IF service = "spotify" THEN member.kind \in {"raise", "nofile"}
    ELSE member.kind = "raise"

nonDownloadVars ==
    <<playlists_dir, playlists, last, orig, jsonVars, threadVars, uiVars>>

\* download_playlist(url) up to the loop; spotify_client: whether the
\* constructor got a Spotify client
download_playlist(url, name, spotify_client, thumbnail, n) ==
    LET service == identify_service(url)
        made == create_playlist_folder(disk, name)
        playlist_dir == made[1]
        with_cover == IF thumbnail
                      THEN [made[2] EXCEPT ![playlist_dir].files = @ \cup {"cover.jpg"}]
                      ELSE made[2]
        playlist_data ==
            [name |-> name, description |-> "",
             cover_image |-> IF thumbnail THEN "cover.jpg" ELSE None,
             source |-> [type |-> IF service = "spotify" THEN "spotify"
                                  ELSE IF InUrl("music.youtube.com", url)
                                  THEN "youtube_music" ELSE "youtube",
                         url |-> url, last_sync |-> Now],
             settings |-> DefaultSettings,
             tracks |-> <<>>]
    IN  /\ dl.pc = "idle"
        /\ IF service = None \/ (service = "spotify" /\ ~spotify_client)
           THEN /\ dl' = [pc |-> "done", service |-> service, ret |-> "None",
                          saved |-> "none", members |-> <<>>, attempted |-> <<>>,
                          i |-> 1, published |-> <<>>, cancel |-> 0]
                /\ progress' = IF service = None THEN progress ELSE NewProgress
                /\ UNCHANGED disk
           ELSE /\ disk' = with_cover
                /\ progress' = [NewProgress EXCEPT !.total_tracks = n]
                /\ dl' = [pc |-> "loop", service |-> service,
                          playlist_dir |-> playlist_dir,
                          playlist_data |-> playlist_data,
                          i |-> 1, members |-> <<>>, attempted |-> <<>>,
                          ret |-> "", saved |-> "none",
                          published |-> <<>>, cancel |-> 0]

\* a counter that steps by two
MarkCompletedTwice(p) == [p EXCEPT !.completed_tracks = @ + 2]

\* self.progress.completed_tracks += 1
mark_completed(p) == [p EXCEPT !.completed_tracks = @ + 1]

\* _ydl_progress_hook, status 'finished'
ydl_progress_hook(p) == [p EXCEPT !.current_progress = 100]

\* self._progress_callback(self.progress), for each of the snapshots in turn;
\* a callback is registered (set_progress_callback)
progress_callback(d, snapshots) == [d EXCEPT !.published = @ \o snapshots]

\* one turn of "for i, entry in enumerate(entries)"
download_member(member) ==
    LET service == dl.service
        seen == [dl EXCEPT !.i = @ + 1, !.members = Append(@, member)]
        tried == [seen EXCEPT !.attempted = Append(@, dl.i)]
        current == [progress EXCEPT !.current_track = member.title]
        hooked == ydl_progress_hook(current)
        completed == mark_completed(hooked)
        failed == IF reports_error(service, member)
                  THEN [current EXCEPT !.errors =
                           Append(@, error_message(service, member))]
                  ELSE current
    IN  /\ dl.pc = "loop"
        /\ dl.i <= progress.total_tracks
        /\ IF member.kind = "empty"
           THEN \* continue
                /\ dl' = seen
                /\ UNCHANGED <<progress, disk>>
           ELSE IF member.kind = "ok"
           THEN /\ disk' = [disk EXCEPT ![dl.playlist_dir].files =
                                            @ \cup {Mp3Of[member.title]}]
                /\ dl' = progress_callback(
                             [tried EXCEPT !.playlist_data.tracks =
                                 Append(@, track_data(service, member, dl.i))],
                             <<current, hooked, completed>>)
                /\ progress' = completed
           ELSE IF member.kind = "raise" /\ ~fetch_caught(service, member)
           THEN \* the outer handler: return None
                /\ dl' = progress_callback([tried EXCEPT !.pc = "done",
                                                         !.ret = "None"],
                                           <<current>>)
                /\ progress' = current
                /\ UNCHANGED disk
           ELSE /\ dl' = progress_callback(tried, <<current, failed>>)
                /\ progress' = failed
                /\ UNCHANGED disk

\* after the loop: FileUtils.save_json(playlist_json_path, playlist_data),
\* its result dropped, and return playlist_dir
download_finish(io) ==
    /\ dl.pc = "loop"
    /\ dl.i > progress.total_tracks
    /\ disk' = save_json(disk, dl.playlist_dir, dl.playlist_data, io)
    /\ dl' = [dl EXCEPT !.pc = "done", !.ret = "playlist_dir",
                        !.saved = IF SaveOk(disk, dl.playlist_dir, io)
                                  THEN "ok" ELSE "failed"]
    /\ UNCHANGED progress

InitDownload == StoreIdle /\ JsonIdle /\ ThreadsIdle /\ DlIdle /\ UiIdle

DownloadPlaylist ==
    /\ UNCHANGED nonDownloadVars
    /\ \E url \in Urls, spotify_client \in BOOLEAN, thumbnail \in BOOLEAN,
          n \in 0..MaxMembers :
           download_playlist(url, <<"M">>, spotify_client, thumbnail, n)

DownloadMember ==
    /\ UNCHANGED nonDownloadVars
    /\ \E member \in Members : download_member(member)

DownloadFinish ==
    /\ UNCHANGED nonDownloadVars
    /\ \E io \in IO : download_finish(io)

NextDownload ==
    \/ DownloadPlaylist
    \/ DownloadMember
    \/ DownloadFinish

SpecDownload == InitDownload /\ [][NextDownload]_vars

\* the caller asks for the batch to be cancelled while member dl.i is the
\* next to start.  PlaylistDownloader has no cancel method, flag or event and
\* neither loop consults one: the request changes nothing the loops read.
download_cancel ==
    /\ dl.pc = "loop"
    /\ dl.cancel = 0
    /\ dl' = [dl EXCEPT !.cancel = dl.i]
    /\ UNCHANGED <<progress, disk>>

DownloadCancel ==
    /\ UNCHANGED nonDownloadVars
    /\ download_cancel

NextCancel ==
    \/ DownloadPlaylist
    \/ DownloadMember
    \/ DownloadCancel
    \/ DownloadFinish

SpecCancel == InitDownload /\ [][NextCancel]_vars

----------------------------------------------------------------------------
(* Spec: one playlist and the operations on it *)

\* the names a user types: "M", "M_1" and "J:"
Names == {<<"M">>, <<"M", "_", "1">>, <<"J", ":">>}

\* the disk after create_playlist("M") on an empty default root
InitDisk ==
    LET made == create_playlist_folder(EmptyDict, <<"M">>)
        pl == Recomputed([Playlist_init(made[1], made[2]) EXCEPT !.name = <<"M">>])
    IN  save_json(made[2], made[1], ManifestData(pl), "ok")

Init ==
    /\ playlists_dir = DefaultRoot
    /\ disk = InitDisk
    /\ playlists \in scan_playlists(InitDisk, DefaultRoot)
    /\ last = NoOp
    /\ orig = <<>>
    /\ JsonIdle
    /\ ThreadsIdle
    /\ DlIdle
    /\ UiIdle

\* the indexes tried on a playlist: every valid one, one below, one above
Indexes(p) == -1 .. Len(playlists[p].tracks)

AddTrack ==
    /\ UNCHANGED nonStoreVars
    /\ \E p \in DOMAIN playlists, f \in FileNames, loc \in Locations, io \in IO :
           add_track(p, f, loc, io)

RemoveTrack ==
    /\ UNCHANGED nonStoreVars
    /\ \E p \in DOMAIN playlists, delete_file \in BOOLEAN, io \in IO :
           \E i \in Indexes(p) : remove_track(p, i, delete_file, io)

ReorderTracks ==
    /\ UNCHANGED nonStoreVars
    /\ \E p \in DOMAIN playlists, io \in IO :
           \E old_index \in Indexes(p), new_index \in Indexes(p) :
               reorder_tracks(p, old_index, new_index, io)

SyncWithFilesystem ==
    /\ UNCHANGED nonStoreVars
    /\ \E p \in DOMAIN playlists, io \in IO : sync_with_filesystem(p, io)

RenamePlaylist ==
    /\ UNCHANGED nonStoreVars
    /\ \E old_name \in Names, new_name \in Names, io_rename \in IO, io_save \in IO :
           rename_playlist(old_name, new_name, io_rename, io_save)

Refresh == refresh /\ UNCHANGED nonStoreVars

\* a download batch and the manager's rescans of the same default root
NextLibrary ==
    \/ DownloadPlaylist
    \/ DownloadMember
    \/ DownloadFinish
    \/ Refresh

SpecLibrary == InitDownload /\ [][NextLibrary]_vars

EnvPutFile ==
    /\ UNCHANGED nonStoreVars
    /\ \E path \in DOMAIN disk, f \in FileNames : env_put_file(path, f)

EnvDeleteFile ==
    /\ UNCHANGED nonStoreVars
    /\ \E path \in DOMAIN disk, f \in FileNames : env_delete_file(path, f)

\* files of any kind appear in and vanish from the playlist directory
EnvPutAnyFile ==
    /\ UNCHANGED nonStoreVars
    /\ \E path \in DOMAIN disk, f \in DirFiles : env_put_file(path, f)

EnvDeleteAnyFile ==
    /\ UNCHANGED nonStoreVars
    /\ \E path \in DOMAIN disk, f \in DirFiles : env_delete_file(path, f)

Next ==
    \/ AddTrack
    \/ RemoveTrack
    \/ ReorderTracks
    \/ SyncWithFilesystem
    \/ Refresh
    \/ EnvPutFile
    \/ EnvDeleteFile

Spec == Init /\ [][Next]_vars

UpdateTrackStats ==
    /\ UNCHANGED nonStoreVars
    /\ \E p \in DOMAIN playlists, played \in BOOLEAN, io \in IO :
           \E i \in Indexes(p) : update_track_stats(p, i, played, io)

\* SpecStats: tracks are added, played and skipped; the playlist is
\* synchronized, saved and loaded again; no file is removed and no track is
\* moved (reorder_tracks moves whole Track objects)
NextStats ==
    \/ AddTrack
    \/ UpdateTrackStats
    \/ SyncWithFilesystem
    \/ Refresh

SpecStats == Init /\ [][NextStats]_vars

\* SpecSync: the playlist directory changes behind the program's back and
\* synchronize reconciles
NextSync ==
    \/ SyncWithFilesystem
    \/ EnvPutAnyFile
    \/ EnvDeleteAnyFile

SpecSync == Init /\ [][NextSync]_vars

----------------------------------------------------------------------------
(* SpecManager: a PlaylistManager over an empty root, and its operations *)

CustomRoot == "/mnt/music"
Roots == {DefaultRoot, CustomRoot}

InitManager ==
    /\ playlists_dir \in Roots
    /\ disk = EmptyDict
    /\ playlists \in scan_playlists(EmptyDict, playlists_dir)
    /\ last = NoOp
    /\ orig = <<>>
    /\ JsonIdle
    /\ ThreadsIdle
    /\ DlIdle
    /\ UiIdle

CreatePlaylist ==
    /\ UNCHANGED nonStoreVars
    /\ \E name \in Names, description \in Descriptions, io \in IO :
           /\ Cardinality(DOMAIN disk) < MaxDirs
           /\ create_playlist(name, description, io)

DeletePlaylist ==
    /\ UNCHANGED nonStoreVars
    /\ \E name \in Names, io \in IO : delete_playlist(name, io)

NextManager ==
    \/ CreatePlaylist
    \/ DeletePlaylist
    \/ RenamePlaylist
    \/ Refresh

SpecManager == InitManager /\ [][NextManager]_vars

----------------------------------------------------------------------------
(* SpecRoundTrip: a manager constructed over a root that holds one playlist *)
(* written earlier (by this program, by a download or by an older version); *)
(* the settings buttons save it and refresh() loads it again                *)

TrackDictA == [filename |-> "a.mp3", title |-> "Song A", artist |-> "Ann",
               duration |-> 2, play_count |-> 2, skip_count |-> 0,
               last_played |-> "2026-01-01T10:00:00"]
\* a track entry without the optional keys and with a key Track does not know
TrackDictB == [filename |-> "b.flac", title |-> "b", duration |-> 3,
               skip_count |-> 1, comment |-> "live"]

InitTrackLists == {<<>>, <<TrackDictA>>, <<TrackDictA, TrackDictB>>,
                   <<TrackDictB, TrackDictA>>}
InitSources == {[type |-> "manual"],
                [type |-> "youtube", url |-> "https://youtube.com/playlist?list=PL1",
                 last_sync |-> "2026-01-01T09:00:00"]}
InitTags == {<<>>, <<"rock", "live">>}

\* the manifests this program writes
FullDocs ==
    {[name |-> n, description |-> d, cover_image |-> None,
      total_duration |-> SumDuration(ts), track_count |-> Len(ts),
      tags |-> tg, source |-> src,
      settings |-> [DefaultSettings EXCEPT !.shuffle_enabled = sh],
      tracks |-> ts] :
        n \in {<<"M">>, <<"J", ":">>}, d \in {"", "mine"}, tg \in InitTags,
        src \in InitSources, sh \in BOOLEAN, ts \in InitTrackLists}

\* the manifests a download writes: no tags, no derived fields
DownloadDocs ==
    {[name |-> <<"M">>, description |-> "", cover_image |-> "cover.jpg",
      source |-> src, settings |-> DefaultSettings, tracks |-> ts] :
        src \in InitSources \ {[type |-> "manual"]}, ts \in InitTrackLists}

InitDocs == FullDocs \cup DownloadDocs

InitRoundTrip ==
    /\ playlists_dir = DefaultRoot
    /\ \E doc \in InitDocs :
           disk = (<<DefaultRoot, sanitize_filename(doc.name)>> :>
                       [manifest |-> File(doc), files |-> FileNames])
    /\ playlists \in scan_playlists(disk, playlists_dir)
    /\ last = NoOp
    /\ orig = <<>>
    /\ JsonIdle
    /\ ThreadsIdle
    /\ DlIdle
    /\ UiIdle

ToggleShuffle ==
    /\ UNCHANGED nonStoreVars
    /\ \E p \in DOMAIN playlists, io \in IO : toggle_shuffle(p, io)

CycleRepeat ==
    /\ UNCHANGED nonStoreVars
    /\ \E p \in DOMAIN playlists, io \in IO : cycle_repeat(p, io)

NextRoundTrip ==
    \/ ToggleShuffle
    \/ CycleRepeat
    \/ Refresh

SpecRoundTrip == InitRoundTrip /\ [][NextRoundTrip]_vars

----------------------------------------------------------------------------
(* AudioPlayer (src/src/core/audio_player.py).  The callbacks on_end,       *)
(* on_error and on_position are registered and on_start is not, as          *)
(* MainWindow.__init__ registers them.                                      *)

\* the positions a playing track is observed at, in tenths of a second
Positions == {0, 30, 31}

play(a, track_path) ==
    [a EXCEPT !.current_track = track_path, !.state = "PLAYING", !.position = 0]

pause(a) == [a EXCEPT !.state = "PAUSED"]

\* pipeline.set_state(Gst.State.NULL)
set_state_null(a) == [a EXCEPT !.state = "NULL", !.position = 0]

stop(a) == set_state_null(a)

\* set_volume: a level outside 0..1 is ignored
set_volume(a, level) ==
    IF 0 <= level /\ level <= 10
    THEN [a EXCEPT !.volume = level, !.pipeline_volume = level]
    ELSE a

\* query_position fails on a pipeline in the NULL state
get_position(a) == IF a.state = "NULL" THEN 0 ELSE a.position

seek(a, position_seconds) ==
    IF a.state = "NULL" THEN a ELSE [a EXCEPT !.position = position_seconds]

is_playing(a) == a.state = "PLAYING"

toggle_play_pause(a) ==
    IF is_playing(a)
    THEN [pause(a) EXCEPT !.is_paused = TRUE]
    ELSE IF a.is_paused /\ a.current_track # NoPath
    THEN [a EXCEPT !.state = "PLAYING", !.is_paused = FALSE]
    ELSE a

\* the polling thread exists and has not returned
thread_is_alive(a) == a.thread \notin {"none", "dead"}

_start_position_updater(a) ==
    IF thread_is_alive(a) THEN a
    ELSE [a EXCEPT !.update_position = TRUE, !.thread = "while"]

\* an end-of-stream handler that leaves the pipeline as it is
EosKeepsState(a) == a

\* on_message, Gst.MessageType.EOS, up to the callback
on_message_eos(a) == set_state_null(a)

\* on_message, Gst.MessageType.ERROR, up to the callback: the error is parsed
\* and logged, the pipeline is not touched
on_message_error(a) == a

\* the errors the backend reports
Errors == {"decode", "io"}

\* _update_position_worker, statement by statement: the loop test; the test
\* of is_playing() and of the callback; get_position() and get_duration();
\* GLib.idle_add(on_position, position, duration); time.sleep(0.1)
worker_while(a) ==
    [a EXCEPT !.thread = IF a.update_position THEN "check" ELSE "dead"]

worker_check(a) ==
    [a EXCEPT !.thread = IF is_playing(a) THEN "query" ELSE "sleep"]

worker_query(a) == [a EXCEPT !.sample = get_position(a), !.thread = "idle_add"]

worker_idle_add(a) == [a EXCEPT !.thread = "sleep"]

worker_sleep(a) == [a EXCEPT !.thread = "while"]

\* the event a step of the player leaves behind; the pipeline playing again
\* ends the time "after stop()"
Event(ev) == [NoEvent EXCEPT !.ev = ev, !.index = win.current_track_index,
                             !.position = get_position(player),
                             !.state = player.state,
                             !.stopped = heard.stopped /\ ~is_playing(player')]

----------------------------------------------------------------------------
(* SpecPlayer: an AudioPlayer driven by a caller, its backend and its      *)
(* polling thread                                                           *)

TrackPaths == {<<<<DefaultRoot, <<"M">>>>, f>> : f \in FileNames}

\* the levels set_volume is tried with, in tenths
Levels == {-1, 0, 5, 10, 11}

nonUiVars == <<storeVars, jsonVars, threadVars, dlVars>>

InitPlayer == StoreIdle /\ JsonIdle /\ ThreadsIdle /\ DlIdle /\ UiIdle

Play ==
    /\ UNCHANGED <<nonUiVars, win>>
    /\ \E track_path \in TrackPaths :
          /\ player' = play(player, track_path)
          /\ heard' = Event("play")

Pause ==
    /\ UNCHANGED <<nonUiVars, win>>
    /\ player' = pause(player)
    /\ heard' = Event("pause")

Stop ==
    /\ UNCHANGED <<nonUiVars, win>>
    /\ player' = stop(player)
    /\ heard' = [Event("stop") EXCEPT !.stopped = TRUE]

Seek ==
    /\ UNCHANGED <<nonUiVars, win>>
    /\ \E position_seconds \in Positions :
          /\ player' = seek(player, position_seconds)
          /\ heard' = [Event("seek") EXCEPT !.a = position_seconds]

SetVolume ==
    /\ UNCHANGED <<nonUiVars, win>>
    /\ \E level \in Levels :
          /\ player' = set_volume(player, level)
          /\ heard' = [Event("set_volume") EXCEPT !.a = level]

TogglePlayPause ==
    /\ UNCHANGED <<nonUiVars, win>>
    /\ player' = toggle_play_pause(player)
    /\ heard' = Event("toggle_play_pause")

StartPositionUpdater ==
    /\ UNCHANGED <<nonUiVars, win>>
    /\ player' = _start_position_updater(player)
    /\ heard' = Event("_start_position_updater")

\* the track plays on
Tick ==
    /\ UNCHANGED <<nonUiVars, win, heard>>
    /\ is_playing(player)
    /\ \E position \in Positions :
          /\ position > player.position
          /\ player' = [player EXCEPT !.position = position]

\* the bus delivers end-of-stream of the playing track; on_end is called
\* once, after set_state
MessageEos ==
    /\ UNCHANGED <<nonUiVars, win>>
    /\ is_playing(player)
    /\ player' = on_message_eos(player)
    /\ heard' = [Event("on_end") EXCEPT !.at = player'.state, !.on_end = 1]

\* the bus delivers an error of the pipeline; on_error(err) is called
MessageError ==
    /\ UNCHANGED <<nonUiVars, win>>
    /\ player.state # "NULL"
    /\ \E err \in Errors :
          /\ player' = on_message_error(player)
          /\ heard' = [Event("on_error") EXCEPT !.at = player'.state, !.err = err]

WorkerWhile ==
    /\ UNCHANGED <<nonUiVars, win, heard>>
    /\ player.thread = "while"
    /\ player' = worker_while(player)

WorkerCheck ==
    /\ UNCHANGED <<nonUiVars, win, heard>>
    /\ player.thread = "check"
    /\ player' = worker_check(player)

WorkerQuery ==
    /\ UNCHANGED <<nonUiVars, win, heard>>
    /\ player.thread = "query"
    /\ player' = worker_query(player)

\* on_position(position, duration) is handed to the main loop
WorkerIdleAdd ==
    /\ UNCHANGED <<nonUiVars, win>>
    /\ player.thread = "idle_add"
    /\ player' = worker_idle_add(player)
    /\ heard' = [Event("on_position") EXCEPT !.a = player.sample,
                                             !.at = player.state]

WorkerSleep ==
    /\ UNCHANGED <<nonUiVars, win, heard>>
    /\ player.thread = "sleep"
    /\ player' = worker_sleep(player)

NextPlayer ==
    \/ Play
    \/ Pause
    \/ Stop
    \/ Seek
    \/ SetVolume
    \/ TogglePlayPause
    \/ StartPositionUpdater
    \/ Tick
    \/ MessageEos
    \/ MessageError
    \/ WorkerWhile
    \/ WorkerCheck
    \/ WorkerQuery
    \/ WorkerIdleAdd
    \/ WorkerSleep

SpecPlayer == InitPlayer /\ [][NextPlayer]_vars

\* the polling thread is a running thread: each of its statements is
\* executed once it is reached
WorkerFairness ==
    /\ WF_vars(WorkerWhile)
    /\ WF_vars(WorkerCheck)
    /\ WF_vars(WorkerQuery)
    /\ WF_vars(WorkerIdleAdd)
    /\ WF_vars(WorkerSleep)

SpecPlayerFair == InitPlayer /\ [][NextPlayer]_vars /\ WorkerFairness

----------------------------------------------------------------------------
(* MainWindow (src/src/ui/main_window.py): the session controller.         *)
(* current_playlist is the Playlist object the manager's dict holds under  *)
(* that name; it is written here as the name.  A handler takes the window  *)
(* w and the player a and gives both back.                                 *)

\* position_seconds > 3.0, in tenths
SeekThreshold == 30

Ui(w, a) == [win |-> w, player |-> a]

\* Playlist.get_track_path
get_track_path(p, index) ==
    IF 0 <= index /\ index < Len(playlists[p].tracks)
    THEN <<playlists[p].path, PyIndex(playlists[p].tracks, index).filename>>
    ELSE NoPath

\* track_path.exists()
path_exists(track_path) ==
    /\ track_path # NoPath
    /\ Exists(disk, track_path[1])
    /\ track_path[2] \in disk[track_path[1]].files

\* TrackList.set_playing_track
set_playing_track(w, index) == [w EXCEPT !.playing_index = index]

_play_current_track(w, a) ==
    IF w.current_playlist = NoPlaylist \/ w.current_track_index < 0 THEN Ui(w, a)
    ELSE LET p == w.current_playlist
             track_path == get_track_path(p, w.current_track_index)
         IN  IF track_path # NoPath /\ path_exists(track_path)
             THEN Ui([set_playing_track(w, w.current_track_index) EXCEPT
                         !.track_info =
                             PyIndex(playlists[p].tracks, w.current_track_index).title],
                     _start_position_updater(play(a, track_path)))
             ELSE Ui(w, a)

\* a next that always steps to the following track
NextIndexNoWrap(index, count) == index + 1

\* (self.current_track_index + 1) % len(self.current_playlist.tracks)
next_index(index, count) == (index + 1) % count

\* (self.current_track_index - 1) % len(self.current_playlist.tracks)
previous_index(index, count) == (index - 1) % count

_play_next(w, a) ==
    IF w.current_playlist = NoPlaylist \/ playlists[w.current_playlist].tracks = <<>>
    THEN Ui(w, a)
    ELSE LET pl == playlists[w.current_playlist]
         IN  IF pl.settings.shuffle_enabled
             THEN \* TODO: Implement shuffle logic
                  _play_current_track(w, a)
             ELSE _play_current_track(
                      [w EXCEPT !.current_track_index =
                                    next_index(@, Len(pl.tracks))], a)

\* a threshold that is reached at 3.0 s
ReachedThreshold(position) == position >= SeekThreshold

\* self.audio_player.get_position() > 3.0
past_threshold(position) == position > SeekThreshold

_play_previous(w, a) ==
    IF w.current_playlist = NoPlaylist \/ playlists[w.current_playlist].tracks = <<>>
    THEN Ui(w, a)
    ELSE LET pl == playlists[w.current_playlist]
         IN  IF past_threshold(get_position(a))
             THEN Ui(w, seek(a, 0))
             ELSE _play_current_track(
                      [w EXCEPT !.current_track_index =
                                    previous_index(@, Len(pl.tracks))], a)

\* self.current_playlist.settings.repeat_mode == "track"
repeats_track(mode) == mode = "track"

\* a test that lets the last track go on as well
GoesOnAtLast(pl, index) ==
    pl.settings.repeat_mode = "playlist" \/ index < Len(pl.tracks)

\* repeat_mode == "playlist" or current_track_index < len(tracks) - 1
goes_on(pl, index) ==
    pl.settings.repeat_mode = "playlist" \/ index < Len(pl.tracks) - 1

\* _on_track_end after update_track_stats, which changes neither the number
\* of tracks nor the settings
_on_track_end(w, a) ==
    IF w.current_playlist = NoPlaylist THEN Ui(w, a)
    ELSE LET pl == playlists[w.current_playlist]
         IN  IF repeats_track(pl.settings.repeat_mode)
             THEN _play_current_track(w, a)
             ELSE IF goes_on(pl, w.current_track_index)
             THEN _play_next(w, a)
             ELSE \* end of playlist
                  Ui(set_playing_track(w, -1), stop(a))

\* _on_track_end takes its last branch, which calls stop()
EndOfPlaylist(w) ==
    /\ w.current_playlist # NoPlaylist
    /\ ~repeats_track(playlists[w.current_playlist].settings.repeat_mode)
    /\ ~goes_on(playlists[w.current_playlist], w.current_track_index)

\* the index update of _on_track_reordered
reordered_index(index, old_index, new_index) ==
    IF index = old_index THEN new_index
    ELSE IF old_index < index /\ index <= new_index THEN index - 1
    ELSE IF new_index <= index /\ index < old_index THEN index + 1
    ELSE index

\* the file at the current track index, None when there is none
CurrentFile(w) ==
    IF w.current_playlist = NoPlaylist THEN None
    ELSE LET tracks == playlists[w.current_playlist].tracks
         IN  IF 0 <= w.current_track_index /\ w.current_track_index < Len(tracks)
             THEN PyIndex(tracks, w.current_track_index).filename
             ELSE None

\* the play counts of the tracks, in order
PlayCounts(tracks) == [j \in 1..Len(tracks) |-> tracks[j].play_count]

\* the event a handler of the window leaves behind
WindowEvent(ev, a, b) ==
    [NoEvent EXCEPT !.ev = ev, !.a = a, !.b = b,
                    !.stopped = heard.stopped /\ ~is_playing(player')]

nonSessionVars == <<jsonVars, threadVars, dlVars>>

\* what the handlers of one event leave
Leaves(ui) ==
    /\ win' = ui.win
    /\ player' = ui.player

_on_playlist_selected(playlist_name) ==
    /\ UNCHANGED <<storeVars, player>>
    /\ win' = IF playlist_name \in DOMAIN playlists
              THEN [win EXCEPT !.current_playlist = playlist_name,
                               !.current_track_index = -1]
              ELSE win
    /\ heard' = WindowEvent("playlist_selected", -9, -9)

_on_track_activated(index) ==
    LET valid == /\ win.current_playlist # NoPlaylist
                 /\ 0 <= index
                 /\ index < Len(playlists[win.current_playlist].tracks)
    IN  /\ UNCHANGED storeVars
        /\ IF valid
           THEN Leaves(_play_current_track(
                           [win EXCEPT !.current_track_index = index], player))
           ELSE UNCHANGED <<win, player>>
        /\ heard' = [WindowEvent("track_activated",
                                 IF thread_is_alive(player) THEN 0 ELSE 1, -9)
                        EXCEPT !.from = IF valid THEN index ELSE -1,
                               !.base = IF valid
                                        THEN PlayCounts(
                                                 playlists[win.current_playlist].tracks)
                                        ELSE <<>>]

_on_track_reordered(old_index, new_index, io) ==
    /\ UNCHANGED player
    /\ IF win.current_playlist # NoPlaylist
       THEN /\ reorder_tracks(win.current_playlist, old_index, new_index, io)
            /\ win' = [win EXCEPT !.current_track_index =
                                      reordered_index(@, old_index, new_index)]
       ELSE UNCHANGED <<storeVars, win>>
    /\ heard' = WindowEvent("track_reordered", old_index, new_index)

Actions == {"play_pause", "previous", "next", "shuffle", "repeat"}

_on_control_action(action, io) ==
    /\ IF action = "play_pause"
       THEN /\ UNCHANGED storeVars
            /\ IF is_playing(player)
               THEN Leaves(Ui(win, pause(player)))
               ELSE IF win.current_track_index >= 0
               THEN Leaves(_play_current_track(win, player))
               ELSE IF win.current_playlist # NoPlaylist
                       /\ playlists[win.current_playlist].tracks # <<>>
               THEN Leaves(_play_current_track(
                               [win EXCEPT !.current_track_index = 0], player))
               ELSE UNCHANGED <<win, player>>
       ELSE IF action = "previous"
       THEN /\ UNCHANGED storeVars
            /\ Leaves(_play_previous(win, player))
       ELSE IF action = "next"
       THEN /\ UNCHANGED storeVars
            /\ Leaves(_play_next(win, player))
       ELSE /\ UNCHANGED <<win, player>>
            /\ IF win.current_playlist = NoPlaylist THEN UNCHANGED storeVars
               ELSE IF action = "shuffle"
               THEN toggle_shuffle(win.current_playlist, io)
               ELSE cycle_repeat(win.current_playlist, io)
    /\ heard' = IF action \in {"previous", "next"}
                THEN [WindowEvent(action, -9, -9) EXCEPT
                         !.index = win.current_track_index,
                         !.position = get_position(player)]
                ELSE WindowEvent(action, -9, -9)

\* on_message(EOS) with _on_track_end as the on_end callback
on_message_eos_window(io) ==
    LET a == on_message_eos(player)
    IN  /\ is_playing(player)
        /\ Leaves(_on_track_end(win, a))
        /\ IF win.current_playlist = NoPlaylist THEN UNCHANGED storeVars
           ELSE update_track_stats(win.current_playlist,
                                   win.current_track_index, TRUE, io)
        /\ heard' = [WindowEvent("on_end", -9, -9) EXCEPT
                        !.index = win.current_track_index,
                        !.at = a.state, !.on_end = 1,
                        !.stopped = @ \/ EndOfPlaylist(win),
                        !.from = heard.from, !.base = heard.base,
                        !.ends = IF heard.from >= 0 THEN heard.ends + 1 ELSE 0]

----------------------------------------------------------------------------
(* SpecSession: a window over a Store of two playlists, M with up to       *)
(* MaxTracks tracks and J with none; the user and the backend act.  The    *)
(* playlists' settings are as an earlier session left them, and one track  *)
(* file may have gone missing.                                             *)

SessionFiles == <<"a.mp3", "b.flac", "C.OGG", "d.wav">>

\* a directory and its playlist after create_playlist, n add_track calls and
\* the settings' changes, with the files in gone removed behind its back
WithPlaylist(d, name, n, shuffle_enabled, repeat_mode, gone) ==
    LET made == create_playlist_folder(d, name)
        files == {SessionFiles[i] : i \in 1..n}
        pl == Recomputed([Playlist_init(made[1], made[2]) EXCEPT
                             !.name = name,
                             !.settings.shuffle_enabled = shuffle_enabled,
                             !.settings.repeat_mode = repeat_mode,
                             !.tracks = [i \in 1..n |->
                                            Track_from_file(SessionFiles[i])]])
    IN  save_json([made[2] EXCEPT ![made[1]].files = files \ gone], made[1],
                  ManifestData(pl), "ok")

InitSession ==
    /\ playlists_dir = DefaultRoot
    /\ \E n \in 0..MaxTracks, shuffle_enabled \in BOOLEAN,
          i \in 1..Len(RepeatModes) :
          \E gone \in {{}} \cup {{SessionFiles[k]} : k \in 1..n} :
              disk = WithPlaylist(
                         WithPlaylist(EmptyDict, <<"M">>, n, shuffle_enabled,
                                      RepeatModes[i], gone),
                         <<"J">>, 0, FALSE, "none", {})
    /\ playlists \in scan_playlists(disk, playlists_dir)
    /\ last = NoOp
    /\ orig = <<>>
    /\ JsonIdle
    /\ ThreadsIdle
    /\ DlIdle
    /\ UiIdle

\* the manifest writes of a session succeed
SessionIO == {"ok"}

PlaylistSelected ==
    /\ UNCHANGED nonSessionVars
    /\ \E playlist_name \in {<<"M">>, <<"J">>, <<"M", "_", "1">>} :
           _on_playlist_selected(playlist_name)

\* the indexes a signal of the track list can carry: every row, one below,
\* one above
Rows ==
    IF win.current_playlist = NoPlaylist THEN {-1, 0}
    ELSE -1 .. Len(playlists[win.current_playlist].tracks)

TrackActivated ==
    /\ UNCHANGED nonSessionVars
    /\ \E index \in Rows : _on_track_activated(index)

TrackReordered ==
    /\ UNCHANGED nonSessionVars
    /\ \E old_index \in Rows, new_index \in Rows, io \in SessionIO :
           _on_track_reordered(old_index, new_index, io)

\* the buttons play/pause, previous and next
PlaybackControl ==
    /\ UNCHANGED nonSessionVars
    /\ \E action \in {"play_pause", "previous", "next"}, io \in SessionIO :
           _on_control_action(action, io)

\* the buttons shuffle and repeat
SettingsControl ==
    /\ UNCHANGED nonSessionVars
    /\ \E action \in {"shuffle", "repeat"}, io \in SessionIO :
           _on_control_action(action, io)

TrackEnds ==
    /\ UNCHANGED nonSessionVars
    /\ \E io \in SessionIO : on_message_eos_window(io)

TrackPlays == Tick

NextSession ==
    \/ PlaylistSelected
    \/ TrackActivated
    \/ PlaybackControl
    \/ TrackEnds
    \/ TrackPlays

SpecSession == InitSession /\ [][NextSession]_vars

\* SpecEdit: the tracks of the current playlist are reordered and its
\* settings changed while a track is selected
NextEdit ==
    \/ PlaylistSelected
    \/ TrackActivated
    \/ TrackReordered
    \/ SettingsControl

\* both playlists as created, with their track files in place
InitEdit ==
    /\ playlists_dir = DefaultRoot
    /\ \E n \in 0..MaxTracks :
          disk = WithPlaylist(
                     WithPlaylist(EmptyDict, <<"M">>, n, FALSE, "none", {}),
                     <<"J">>, 0, FALSE, "none", {})
    /\ playlists \in scan_playlists(disk, playlists_dir)
    /\ last = NoOp
    /\ orig = <<>>
    /\ JsonIdle
    /\ ThreadsIdle
    /\ DlIdle
    /\ UiIdle

SpecEdit == InitEdit /\ [][NextEdit]_vars

----------------------------------------------------------------------------
(* The claims *)

\* C1: create(name) followed immediately by create(name) with the same name
\* yields two distinct playlists: distinct directories and two distinct
\* entries retrievable from the Store, the second with a disambiguated name
\* (stated for two creations whose manifest writes both succeed).
C1_CreateTwiceDistinct ==
    [][ ( /\ last.op = "create_playlist" /\ last.ret = "Playlist"
          /\ last'.op = "create_playlist" /\ last'.ret = "Playlist"
          /\ last'.name = last.name )
        => ( /\ last'.path # last.path
             /\ \E k1 \in DOMAIN playlists', k2 \in DOMAIN playlists' :
                    /\ k1 # k2
                    /\ playlists'[k1].path = last.path
                    /\ playlists'[k2].path = last'.path
                    /\ playlists'[k2].name # playlists'[k1].name ) ]_vars

\* C2: for every pair (old_index, new_index) within bounds,
\* reorder_tracks(old_index, new_index) followed by
\* reorder_tracks(new_index, old_index) restores the original track sequence.
C2_ReorderRoundTrip ==
    (last.op = "reorder_tracks" /\ last.undo)
        => playlists[last.name].tracks = orig

\* a reversed move over at least two positions has just restored a sequence
\* that the first move had changed
C2_Witness ==
    /\ last.op = "reorder_tracks" /\ last.undo
    /\ Len(orig) >= 3
    /\ (last.a - last.b >= 2 \/ last.b - last.a >= 2)
    /\ MoveTrack(orig, last.b, last.a) # orig
    /\ playlists[last.name].tracks = orig

\* C3: save followed by load of any playlist reproduces every non-derived
\* field (name, description, tags, source, settings, the ordered track
\* sequence with each track's fields), and the derived fields track_count
\* and total_duration equal the values recomputed from the track sequence.
C3_SaveLoadRoundTrip ==
    [][ (last.saved = "ok" /\ last'.op = "refresh")
        => ( /\ last.name \in DOMAIN playlists'
             /\ playlists'[last.name] = playlists[last.name]
             /\ playlists'[last.name].track_count =
                    Len(playlists'[last.name].tracks)
             /\ playlists'[last.name].total_duration =
                    SumDuration(playlists'[last.name].tracks) ) ]_vars

\* a playlist with tags, a source URL, changed settings and two tracks, one
\* of them without an artist, was loaded right after it had been saved
C3_Witness ==
    /\ last.op = "refresh" /\ last.prev = "saved"
    /\ last.name \in DOMAIN playlists
    /\ LET pl == playlists[last.name]
       IN  /\ pl.tags # <<>>
           /\ pl.description # ""
           /\ pl.source.url # None
           /\ pl.settings.shuffle_enabled
           /\ pl.settings.repeat_mode = "playlist"
           /\ Len(pl.tracks) = 2
           /\ pl.tracks[1].artist = None /\ pl.tracks[1].skip_count = 1
           /\ pl.tracks[2].play_count = 2 /\ pl.tracks[2].last_played # None
           /\ pl.track_count = 2 /\ pl.total_duration = 5

\* C4: during a save, and after a failure at any step of it, the manifest
\* file is never half-written: at every point its content is either the
\* complete previous manifest or the complete new manifest.
C4_ManifestNeverTorn ==
    /\ (JsonManifest = json_before \/ JsonManifest = Whole(json_data))
    /\ (JsonManifest # NoFile => Content(JsonManifest).whole)

\* a save of a new document failed while writing: the temporary file is torn
\* and the manifest still holds the whole previous document
C4_Witness ==
    /\ json_pc = "idle" /\ json_ret = "False"
    /\ json_files[temp_path(ManifestPath)] = Torn(json_data)
    /\ JsonManifest # NoFile
    /\ JsonManifest = json_before
    /\ JsonManifest # Whole(json_data)

\* C5: after every save that overwrites an existing manifest, the backup
\* copy holds exactly the manifest content that was on disk immediately
\* before that save, for any sequence of saves.
C5_BackupIsPrevious ==
    (json_pc = "idle" /\ json_ret = "True" /\ json_before # NoFile)
        => json_files[backup_path(ManifestPath)] = json_before

\* a save replaced a manifest by a different document and the backup holds
\* the replaced one
C5_Witness ==
    /\ json_pc = "idle" /\ json_ret = "True" /\ json_before # NoFile
    /\ json_files[backup_path(ManifestPath)] = json_before
    /\ JsonManifest # json_before

\* C6: every mutating Store operation reports failure to its caller whenever
\* the manifest save it performs fails.
C6_SaveFailureReported ==
    last.saved = "failed" => last.ret \in {"False", "None"}

\* C7: after a mutating Store operation whose manifest save fails, the
\* in-memory playlist does not diverge from disk: its track sequence and name
\* equal those of the manifest on disk.
C7_NoDivergence ==
    (last.saved = "failed" /\ last.name \in DOMAIN playlists)
        => LET pl == playlists[last.name]
               data == Content(disk[pl.path].manifest)
           IN  /\ pl.name = data.name
               /\ pl.tracks = ManifestTracks(data)

\* C8: no two tracks of one playlist have the same filename.
C8_UniqueFilenames ==
    \A p \in DOMAIN playlists :
        \A i, j \in 1..Len(playlists[p].tracks) :
            playlists[p].tracks[i].filename = playlists[p].tracks[j].filename
                => i = j

\* C9 as stated: add_track of an existing source file whose name is already
\* present in the playlist directory is rejected (AlreadyExists) and leaves
\* the track sequence, the directory contents and the manifest unchanged,
\* whether the source file lies outside or inside the playlist directory.
C9_Original ==
    [][ ( /\ last'.op = "add_track"
          /\ last'.loc \in {"inside", "outside"}
          /\ last'.file \in disk[playlists[last'.name].path].files )
        => ( /\ last'.ret = "False" /\ last'.err = "AlreadyExists"
             /\ UNCHANGED <<playlists, disk>> ) ]_vars

\* C9 amended: add_track of a source file that lies outside the playlist
\* directory and whose name is already present in the playlist directory is
\* rejected (AlreadyExists) and leaves the track sequence, the directory
\* contents and the manifest unchanged.
C9_OutsideRejected ==
    [][ ( /\ last'.op = "add_track"
          /\ last'.loc = "outside"
          /\ last'.file \in disk[playlists[last'.name].path].files )
        => ( /\ last'.ret = "False" /\ last'.err = "AlreadyExists"
             /\ UNCHANGED <<playlists, disk>> ) ]_vars

\* an outside file was refused because the directory holds a file of its
\* name, which is not yet a track of the playlist
C9_Witness ==
    /\ last.op = "add_track" /\ last.loc = "outside"
    /\ last.ret = "False" /\ last.err = "AlreadyExists"
    /\ last.file \in disk[playlists[last.name].path].files
    /\ \A i \in 1..Len(playlists[last.name].tracks) :
           playlists[last.name].tracks[i].filename # last.file

\* C10: remove_track with an index outside 0..track_count-1 returns failure
\* (OutOfRange) and leaves the track sequence unchanged; it deletes no file,
\* even with delete_file set, and does not write the manifest.
C10_RemoveOutOfRange ==
    [][ ( /\ last'.op = "remove_track"
          /\ (last'.a < 0 \/ last'.a >= Len(playlists[last'.name].tracks)) )
        => ( /\ last'.ret = "False" /\ last'.err = "OutOfRange"
             /\ UNCHANGED <<playlists, disk>> ) ]_vars

\* remove_track(-1, delete_file = True) was refused on a playlist whose last
\* track has its file on disk and whose manifest lags behind the memory
C10_Witness ==
    /\ last.op = "remove_track" /\ last.a = -1 /\ last.b = 1
    /\ last.ret = "False" /\ last.err = "OutOfRange"
    /\ LET pl == playlists[last.name]
       IN  /\ Len(pl.tracks) >= 2
           /\ pl.tracks[Len(pl.tracks)].filename \in disk[pl.path].files
           /\ pl.tracks # ManifestTracks(Content(disk[pl.path].manifest))

\* C11: sync_with_filesystem run twice in a row with no filesystem change
\* between the runs produces, the second time, a track sequence identical to
\* the one after the first run.
C11_SyncIdempotent ==
    [][ (last.op = "sync_with_filesystem" /\ last'.op = "sync_with_filesystem")
        => playlists'[last'.name].tracks = playlists[last'.name].tracks ]_vars

\* a second sync in a row ended on a playlist of three tracks not in sorted
\* order, in a directory that also holds the cover image
C11_Witness ==
    /\ last.op = "sync_with_filesystem" /\ last.prev = "sync"
    /\ LET pl == playlists[last.name]
       IN  /\ Len(pl.tracks) = 3
           /\ FileRank(pl.tracks[1].filename) > FileRank(pl.tracks[2].filename)
           /\ "cover.jpg" \in disk[pl.path].files

\* C12: after sync_with_filesystem every track's backing file exists, every
\* audio file in the playlist directory with an allowed extension is a track,
\* the tracks that survive keep their previous relative order, and the newly
\* synthesized tracks follow them in lexicographic file order.
C12_SyncReconciles ==
    [][ (last'.op = "sync_with_filesystem")
        => LET old == playlists[last'.name].tracks
               new == playlists'[last'.name].tracks
               files == disk'[playlists'[last'.name].path].files
               survivors == SelectSeq(old, LAMBDA t : t.filename \in files)
               k == Len(survivors)
           IN  /\ \A i \in 1..Len(new) : new[i].filename \in files
               /\ \A f \in files :
                      SuffixLower[f] \in supported_extensions
                          => \E i \in 1..Len(new) : new[i].filename = f
               /\ Len(new) >= k
               /\ SubSeq(new, 1, k) = survivors
               /\ \A i \in (k + 1)..Len(new) :
                      /\ \A j \in 1..Len(old) : old[j].filename # new[i].filename
                      /\ \A j \in (i + 1)..Len(new) :
                             FileRank(new[i].filename) < FileRank(new[j].filename)
      ]_vars

\* a sync dropped one track, kept a survivor and appended two new tracks,
\* the capitalised file first, and left the cover image alone
C12_Witness ==
    /\ last.op = "sync_with_filesystem" /\ last.a = 2 /\ last.b = 1
    /\ LET pl == playlists[last.name]
       IN  /\ Len(pl.tracks) = 3
           /\ pl.tracks[1].filename = "d.wav"
           /\ pl.tracks[2].filename = "C.OGG"
           /\ pl.tracks[3].filename = "a.mp3"
           /\ disk[pl.path].files = {"d.wav", "C.OGG", "a.mp3", "cover.jpg"}

\* the directories under the root that pass the validity check
ValidDirs ==
    {path \in DOMAIN disk :
        path[1] = playlists_dir /\ validate_playlist_structure(disk, path)}

\* C13: after refresh(), the in-memory index contains exactly one playlist
\* for each directory under the root that passes the validity check: no valid
\* directory is missing from it and none is represented twice.
C13_RefreshIndexesEveryDir ==
    last.op = "refresh"
        => /\ \A path \in ValidDirs :
                  Cardinality({k \in DOMAIN playlists : playlists[k].path = path}) = 1
           /\ \A k \in DOMAIN playlists : playlists[k].path \in ValidDirs

\* C14: rename(old_name, new_name) fails (NameConflict) whenever the
\* destination directory already exists and then leaves the index, the
\* directories and the playlist's name and path unchanged; when it succeeds,
\* the index no longer contains old_name, maps new_name to the same playlist,
\* and the persisted manifest carries new_name.
C14_Rename ==
    [][ (last'.op = "rename_playlist" /\ last'.old \in DOMAIN playlists)
        => LET old_name == last'.old
               new_name == last'.name
               new_path == <<playlists_dir, sanitize_filename(new_name)>>
           IN  /\ Exists(disk, new_path)
                      => /\ last'.ret = "False" /\ last'.err = "NameConflict"
                         /\ UNCHANGED <<playlists, disk>>
               /\ last'.ret = "True"
                      => /\ (old_name # new_name => old_name \notin DOMAIN playlists')
                         /\ new_name \in DOMAIN playlists'
                         /\ playlists'[new_name] =
                                [playlists[old_name] EXCEPT !.name = new_name,
                                                            !.path = new_path]
                         /\ Exists(disk', new_path)
                         /\ disk'[new_path].manifest # NoFile
                         /\ Content(disk'[new_path].manifest).name = new_name
      ]_vars

\* C15: delete(name) of a name absent from the in-memory index fails
\* (NotFound) and changes neither the index nor the filesystem; delete of an
\* indexed name removes that playlist's directory tree and its index entry,
\* so that after a following refresh() no playlist with that name is in the
\* index.
C15_Delete ==
    [][ /\ (last'.op = "delete_playlist" /\ last'.name \notin DOMAIN playlists)
            => /\ last'.ret = "False" /\ last'.err = "NotFound"
               /\ UNCHANGED <<playlists, disk>>
        /\ (last'.op = "delete_playlist" /\ last'.ret = "True")
            => /\ ~Exists(disk', playlists[last'.name].path)
               /\ last'.name \notin DOMAIN playlists'
        /\ (last.op = "delete_playlist" /\ last.ret = "True" /\ last'.op = "refresh")
            => last.name \notin DOMAIN playlists'
      ]_vars

\* C16: update_track_stats(index, played) with an in-range index changes
\* exactly one counter of exactly that track by +1 (play_count, with
\* last_played stamped, when played; skip_count otherwise) and saves; with an
\* out-of-range index (including -1) it changes no track, writes nothing and
\* surfaces no error.
C16_UpdateTrackStats ==
    [][ (last'.op = "update_track_stats")
        => LET old == playlists[last'.name].tracks
               new == playlists'[last'.name].tracks
               i == last'.a
           IN  IF 0 <= i /\ i < Len(old)
               THEN /\ Len(new) = Len(old)
                    /\ \A j \in 1..Len(old) : j # i + 1 => new[j] = old[j]
                    /\ new[i + 1] =
                           IF last'.b = 1
                           THEN [old[i + 1] EXCEPT !.play_count = @ + 1,
                                                   !.last_played = Now]
                           ELSE [old[i + 1] EXCEPT !.skip_count = @ + 1]
                    /\ last'.saved \in {"ok", "failed"}
                    /\ last'.saved = "ok" =>
                           ManifestTracks(Content(
                               disk'[playlists'[last'.name].path].manifest)) = new
                    /\ last'.ret = "None" /\ last'.err = ""
               ELSE /\ UNCHANGED <<playlists, disk>>
                    /\ last'.saved = "none"
                    /\ last'.ret = "None" /\ last'.err = ""
      ]_vars

\* update_track_stats(-1) was a no-op on a playlist of two tracks whose last
\* track had been played once and skipped once before
C16_Witness ==
    /\ last.op = "update_track_stats" /\ last.a = -1 /\ last.ret = "None"
    /\ LET pl == playlists[last.name]
       IN  /\ Len(pl.tracks) = 2
           /\ pl.tracks[2].play_count = 1 /\ pl.tracks[2].skip_count = 1
           /\ pl.tracks[2].last_played = Now
           /\ pl.tracks[1].play_count = 0 /\ pl.tracks[1].skip_count = 0

\* C17: for every track of a playlist, identified by its filename,
\* play_count and skip_count never decrease across any sequence of Store
\* operations (add_track, reorder_tracks, update_track_stats,
\* sync_with_filesystem, save, load); stated for playlists whose filenames
\* are unique.
C17_CountersNeverDecrease ==
    [][ \A p \in (DOMAIN playlists) \cap (DOMAIN playlists') :
            LET old == playlists[p].tracks
                new == playlists'[p].tracks
                Unique(ts) == \A i, j \in 1..Len(ts) :
                                  ts[i].filename = ts[j].filename => i = j
            IN  (Unique(old) /\ Unique(new))
                => \A i \in 1..Len(old), j \in 1..Len(new) :
                       old[i].filename = new[j].filename
                           => /\ new[j].play_count >= old[i].play_count
                              /\ new[j].skip_count >= old[i].skip_count
      ]_vars

\* C18: two concurrent save() calls on the same playlist are serialized, so
\* that both calls succeed and the final manifest is the complete output of
\* one of them.
C18_ConcurrentSaves ==
    (DOMAIN save_threads = Threads /\ \A t \in Threads : save_threads[t].pc = "done")
        => /\ \A t \in Threads : save_threads[t].ret = "True"
           /\ \E t \in Threads : JsonManifest = Whole(save_threads[t].data)

\* the members of the batch that did not materialize, and the file names of
\* those that did, in fetch order
FailedMembers == {k \in 1..Len(dl.members) : dl.members[k].kind # "ok"}

FetchedFiles ==
    LET fetched == SelectSeq(dl.members, LAMBDA m : m.kind = "ok")
    IN  [k \in 1..Len(fetched) |-> Mp3Of[fetched[k].title]]

\* C19: for a download batch of n members in which exactly the members of a
\* set F fail to materialize, the batch ends with completed_tracks = n - |F|,
\* errors of length |F|, and a persisted manifest containing exactly the
\* successful members' tracks in their fetch order.
C19_BatchAccounting ==
    (dl.pc = "done" /\ dl.ret = "playlist_dir" /\ dl.saved = "ok")
        => LET n == progress.total_tracks
               data == Content(disk[dl.playlist_dir].manifest)
           IN  /\ progress.completed_tracks = n - Cardinality(FailedMembers)
               /\ Len(progress.errors) = Cardinality(FailedMembers)
               /\ [k \in 1..Len(data.tracks) |-> data.tracks[k].filename]
                      = FetchedFiles

IsPrefix(s, t) == Len(s) <= Len(t) /\ SubSeq(t, 1, Len(s)) = s

\* C21: over the snapshots published during one download batch, in order,
\* completed_tracks never decreases and never exceeds total_tracks, and the
\* errors and skipped lists of a snapshot are prefixes of those of every
\* later snapshot.
C21_SnapshotsMonotone ==
    "published" \in DOMAIN dl =>
        \A k \in 1..Len(dl.published) :
            /\ dl.published[k].completed_tracks <= dl.published[k].total_tracks
            /\ \A j \in 1..k :
                  /\ dl.published[j].completed_tracks
                        <= dl.published[k].completed_tracks
                  /\ IsPrefix(dl.published[j].errors, dl.published[k].errors)
                  /\ IsPrefix(dl.published[j].skipped, dl.published[k].skipped)

\* a finished batch whose snapshots show the counter and the error list grow,
\* the counter up to the total
C21_Witness ==
    /\ dl.pc = "done"
    /\ dl.ret = "playlist_dir"
    /\ \E j, k \in 1..Len(dl.published) :
          /\ j < k
          /\ dl.published[j].completed_tracks = 1
          /\ dl.published[k].completed_tracks = 2
          /\ dl.published[j].errors = <<>>
          /\ dl.published[k].errors # <<>>
    /\ progress.total_tracks = 3

\* C22: once the caller has raised the cancel signal during a batch, no
\* member fetch starts: every member whose fetch was attempted has an index
\* below the index that was next when the signal was raised.
C22_CancelStopsFetches ==
    ("cancel" \in DOMAIN dl /\ dl.cancel > 0) =>
        \A k \in 1..Len(dl.attempted) : dl.attempted[k] < dl.cancel

\* the current playlist of the window, where it has one
Current == playlists[win.current_playlist]

\* a track of the current playlist is selected
TrackSelected ==
    /\ win.current_playlist # NoPlaylist
    /\ 0 <= win.current_track_index
    /\ win.current_track_index < Len(Current.tracks)

\* the step is the handling of one press of a button
Pressed(action) == \E io \in SessionIO : _on_control_action(action, io)

\* C23: on a non-shuffled playlist of length N with a track selected, each
\* next() sets the selected index to index + 1, and to 0 after the last
\* track; so N calls from index 0 yield 1, 2, ..., N-1, 0.
C23_NextCycles ==
    [][ ( /\ Pressed("next")
          /\ TrackSelected
          /\ ~Current.settings.shuffle_enabled )
        => win'.current_track_index =
               IF win.current_track_index = Len(Current.tracks) - 1 THEN 0
               ELSE win.current_track_index + 1 ]_vars

\* next() has wrapped from the last track of a playlist of MaxTracks tracks
\* to the first, which plays
C23_Witness ==
    /\ heard.ev = "next"
    /\ win.current_playlist # NoPlaylist
    /\ Len(Current.tracks) = MaxTracks
    /\ ~Current.settings.shuffle_enabled
    /\ Current.settings.repeat_mode = "none"
    /\ heard.index = MaxTracks - 1
    /\ win.current_track_index = 0
    /\ is_playing(player)
    /\ player.current_track = get_track_path(win.current_playlist, 0)

\* C24: previous() called when the position exceeds 3.0 s seeks to position
\* 0 and leaves the selected index unchanged; called when the position is at
\* most 3.0 s it moves the selected index from i to i - 1, and from 0 to
\* N - 1.
C24_PreviousThreshold ==
    [][ ( /\ Pressed("previous")
          /\ TrackSelected )
        => IF get_position(player) > 30
           THEN /\ win'.current_track_index = win.current_track_index
                /\ get_position(player') = 0
                /\ player'.state = player.state
           ELSE win'.current_track_index =
                    IF win.current_track_index = 0 THEN Len(Current.tracks) - 1
                    ELSE win.current_track_index - 1 ]_vars

\* previous() at exactly 3.0 s has moved from the first track to the last
C24_Witness ==
    /\ heard.ev = "previous"
    /\ heard.position = 30
    /\ heard.index = 0
    /\ win.current_playlist # NoPlaylist
    /\ Len(Current.tracks) = MaxTracks
    /\ win.current_track_index = MaxTracks - 1
    /\ is_playing(player)

\* the step is the handling of one track-reordered signal
Reordered ==
    \E old_index \in Rows, new_index \in Rows, io \in SessionIO :
        _on_track_reordered(old_index, new_index, io)

\* C25: for every reorder request (old_index, new_index) made while a track
\* is selected, a request the Store rejects included, the track found at the
\* selected index after the request is the track that was selected before
\* it.
C25_ReorderKeepsSelection ==
    [][ (Reordered /\ TrackSelected)
        => (CurrentFile(win))' = CurrentFile(win) ]_vars

\* the step is the handling of one end-of-stream message
TrackEnded == \E io \in SessionIO : on_message_eos_window(io)

\* the file of a track exists and the player plays it
Plays(a, p, index) ==
    path_exists(get_track_path(p, index)) =>
        is_playing(a) /\ a.current_track = get_track_path(p, index)

\* C26: at the end of a track of the current playlist, with repeat_mode =
\* track the same index is replayed; otherwise, with repeat_mode = playlist
\* or a current index that is not the last, playback advances to another
\* track via next(), index + 1 or 0 after the last when shuffle is off;
\* otherwise playback is stopped and the now-playing indicator cleared.
C26_TrackEndSuccessor ==
    [][ (TrackEnded /\ TrackSelected)
        => LET index == win.current_track_index
               count == Len(Current.tracks)
           IN  IF Current.settings.repeat_mode = "track"
               THEN /\ win'.current_track_index = index
                    /\ Plays(player', win.current_playlist, index)
               ELSE IF Current.settings.repeat_mode = "playlist"
                       \/ index # count - 1
               THEN /\ ~Current.settings.shuffle_enabled =>
                           win'.current_track_index =
                               IF index = count - 1 THEN 0 ELSE index + 1
                    /\ count >= 2 => win'.current_track_index # index
                    /\ Plays(player', win.current_playlist,
                             win'.current_track_index)
               ELSE /\ ~is_playing(player')
                    /\ win'.playing_index = -1 ]_vars

\* C27: with shuffle enabled, on a playlist of at least two tracks of which
\* only the current one has been played in the session, next() selects
\* another track than the one that is playing.
C27_ShuffleNext ==
    [][ ( /\ Pressed("next")
          /\ TrackSelected
          /\ Current.settings.shuffle_enabled
          /\ Len(Current.tracks) >= 2
          /\ heard.ev = "track_activated" /\ heard.a = 1
          /\ is_playing(player) )
        => win'.current_track_index # win.current_track_index ]_vars

\* C28: a backend end-of-stream message delivers exactly one on_end event
\* and forces the engine to Idle (the pipeline in the NULL state); the engine
\* is already Idle when on_end is delivered.
C28_EosDeliversOnEnd ==
    heard.ev = "on_end" =>
        /\ heard.on_end = 1
        /\ heard.at = "NULL"
        /\ player.state = "NULL"
        /\ ~is_playing(player)

\* end-of-stream of a track that was playing, 3.1 s in
C28_Witness ==
    /\ heard.ev = "on_end"
    /\ heard.state = "PLAYING"
    /\ heard.position = 31
    /\ player.current_track # NoPath

\* C29: a backend decode/IO error delivers an on_error event carrying the
\* error description and forces the engine into Stopped(Error): after the
\* error the engine is not Playing.
C29_ErrorStops ==
    heard.ev = "on_error" =>
        /\ heard.err \in Errors
        /\ ~is_playing(player)

\* C30: no on_position event is published after stop() has been issued,
\* whatever the interleaving of the polling thread with the caller.
C30_NoPositionAfterStop ==
    heard.ev = "on_position" => ~heard.stopped

\* C31: the polling loop is active only while the engine is Playing: once
\* the engine is not Playing while the polling thread is alive, the thread
\* eventually terminates (or the engine plays again).
C31_PollingStops ==
    (thread_is_alive(player) /\ ~is_playing(player))
        ~> (~thread_is_alive(player) \/ is_playing(player))

\* the step is one call of play, pause or stop
PlayPauseStop == Play \/ Pause \/ Stop

\* C32: after set_volume(level) the stored volume is min(1, max(0, level))
\* for every level (10, 0 and the level itself, in tenths) and the backend
\* has it; play, pause and stop leave the volume unchanged.
C32_VolumeClamped ==
    [][ /\ SetVolume =>
             /\ player'.volume = IF heard'.a < 0 THEN 0
                                 ELSE IF heard'.a > 10 THEN 10 ELSE heard'.a
             /\ player'.pipeline_volume = player'.volume
        /\ PlayPauseStop =>
             /\ player'.volume = player.volume
             /\ player'.pipeline_volume = player.pipeline_volume ]_vars

\* C33: every playlist in the index has track_count equal to the number of
\* its tracks and total_duration equal to the sum of their durations, a
\* playlist loaded from the manifest a download batch wrote included.
C33_DerivedFieldsConsistent ==
    \A n \in DOMAIN playlists :
        /\ playlists[n].track_count = Len(playlists[n].tracks)
        /\ playlists[n].total_duration = SumDuration(playlists[n].tracks)

\* C34: in every reachable state of the session the current track index is
\* -1 or an index of a track of the current playlist, whatever playlist
\* selections, activations and reorder requests came before.
C34_IndexInRange ==
    \/ win.current_track_index = -1
    \/ /\ win.current_playlist # NoPlaylist
       /\ 0 <= win.current_track_index
       /\ win.current_track_index < Len(Current.tracks)

\* the plays the end of the engine's track adds to track i of playlist p
Finished(p, i) ==
    IF <<playlists[p].path, playlists[p].tracks[i].filename>> = player.current_track
    THEN 1 ELSE 0

\* C35: every on_end event increments the play_count of the track the engine
\* has just finished playing, and of no other track, whatever selections,
\* activations and next/previous presses came before it.
C35_EndCountsFinishedTrack ==
    [][ TrackEnded =>
            \A p \in DOMAIN playlists :
                \A i \in 1..Len(playlists[p].tracks) :
                    playlists'[p].tracks[i].play_count =
                        playlists[p].tracks[i].play_count + Finished(p, i) ]_vars

\* C36: whenever the engine is playing, the track it plays is the track at
\* the current track index of the current playlist, and the now-playing
\* indicator equals that index.
C36_EngineFollowsIndex ==
    is_playing(player) =>
        /\ win.current_playlist # NoPlaylist
        /\ player.current_track =
               get_track_path(win.current_playlist, win.current_track_index)
        /\ win.playing_index = win.current_track_index

\* every track file of the current playlist exists
AllFilesExist ==
    \A j \in 0..Len(Current.tracks) - 1 :
        path_exists(get_track_path(win.current_playlist, j))

\* playback was started by an activation and only ends of track followed, on
\* a playlist with repeat_mode = none and shuffle off whose files all exist
RunToEnd ==
    /\ heard.from >= 0
    /\ win.current_playlist # NoPlaylist
    /\ Current.settings.repeat_mode = "none"
    /\ ~Current.settings.shuffle_enabled
    /\ AllFilesExist

\* C37: on a playlist of N tracks with repeat_mode = none and shuffle off
\* whose files all exist, playback started at index i and driven only by
\* on_end events plays track i + m after m < N - i of them, and stops at the
\* (N - i)-th with the indicator cleared and the index still N - 1; each of
\* the tracks played to their end has been counted once, no other track.
C37_RunStopsAtLast ==
    RunToEnd =>
        LET N == Len(Current.tracks)
            i == heard.from
            m == heard.ends
        IN  /\ m <= N - i
            /\ m < N - i =>
                   /\ is_playing(player)
                   /\ win.current_track_index = i + m
                   /\ win.playing_index = i + m
                   /\ player.current_track =
                          get_track_path(win.current_playlist, i + m)
            /\ m = N - i =>
                   /\ player.state = "NULL"
                   /\ win.playing_index = -1
                   /\ win.current_track_index = N - 1
            /\ \A j \in 0..N - 1 :
                   Current.tracks[j + 1].play_count =
                       heard.base[j + 1]
                       + (IF i <= j /\ j < i + m THEN 1 ELSE 0)

\* a run from the first track of a playlist of MaxTracks tracks has stopped
C37_Witness ==
    /\ RunToEnd
    /\ Len(Current.tracks) = MaxTracks
    /\ heard.from = 0
    /\ heard.ends = MaxTracks
    /\ ~is_playing(player)

\* C38: when a download batch has finished every member is accounted for:
\* completed_tracks plus the lengths of errors and skipped is total_tracks,
\* whatever became of each member (fetched, raised, no file, empty entry).
C38_EveryMemberAccounted ==
    dl.pc = "done" =>
        progress.completed_tracks + Len(progress.errors) + Len(progress.skipped)
            = progress.total_tracks

\* C39: current_progress describes the current item only: the snapshot
\* published when a member becomes current_track, before its fetch has
\* reported anything, has current_progress 0, whatever the previous member
\* reached.
C39_ProgressStartsAtZero ==
    [][ (DownloadMember /\ Len(dl'.published) > Len(dl.published))
        => LET first == dl'.published[Len(dl.published) + 1]
           IN  /\ first.current_track = dl'.members[dl.i].title
               /\ first.current_progress = 0 ]_vars

\* C40: a playlist created by create_playlist on a manager whose root is R
\* has its directory directly under R, and a playlist of its name is still
\* in the index after a following refresh(), for every root R.
C40_CreatedUnderRoot ==
    [][ /\ (last'.op = "create_playlist" /\ last'.ret = "Playlist")
            => /\ last'.path[1] = playlists_dir
               /\ Exists(disk', last'.path)
        /\ (last.op = "create_playlist" /\ last.ret = "Playlist"
               /\ last'.op = "refresh")
            => last.name \in DOMAIN playlists'
      ]_vars

====
